---- MODULE Spec2Model ----
(***************************************************************************)
(* Model of add-delpher-urls-to-sdc.py: the retrying POST helper           *)
(* mw_mutate, the statement reconciler ensure_statement with its read and  *)
(* write helpers, and the caption step of main, run against a model of the *)
(* Commons Action API (one MediaInfo entity with its P7482 claims and its  *)
(* labels).                                                                *)
(*                                                                         *)
(* Durations are in tenths of a second.  Strings that the code trims or    *)
(* tests by prefix are sequences of tokens; " " is a whitespace token.     *)
(***************************************************************************)
EXTENDS Integers, Sequences, FiniteSets, TLC

VARIABLES
    m,      \* frame of the running mw_mutate call
    hist,   \* record of what the running mw_mutate call has done so far
    srv,    \* the wiki: claims and labels of the entity, id counter, failures left
    es,     \* frame of ensure_statement and the tally of the calls made so far
    mn,     \* frame of main: the row, its status columns, the caption step
    fn      \* frame of a function or script that is checked on its own

vars == <<m, hist, srv, es, mn, fn>>

\* no function or script of the last kind is under way
IdleFn == [pc |-> "none"]

(***************************************************************************)
(* Program constants                                                       *)
(***************************************************************************)
max_retries == 4
base_sleep == 10
RETRYABLE_STATUS == {502, 503, 504}
RETRYABLE_API_CODES_Wide == {"maxlag", "ratelimited", "internal_api_error", "permissiondenied"}
RETRYABLE_API_CODES == {"maxlag", "ratelimited", "internal_api_error"}
RETRYABLE_AUTH_CODES == {"badtoken", "assertuserfailed", "assertnameduserfailed", "notloggedin"}
P_SOURCE_OF_FILE == "P7482"
Q_FILE_ONLINE == 74228490
P_DESCRIBED_AT_URL == "P973"
P_OPERATOR == "P137"
Q_DELPHER == 20670235

(***************************************************************************)
(* Bounds of the model                                                     *)
(***************************************************************************)
\* failures (anything but a clean success) the wiki may inject into the
\* writes of one ensure_statement run or one row of main
MaxFaults == 1
\* P7482 claims the entity holds before the program runs
MaxInitClaims == 2

NoVal == "<none>"

(***************************************************************************)
(* Dictionaries: Python dicts are functions; setdefault keeps a present    *)
(* key.                                                                    *)
(***************************************************************************)
Has(dict, k) == k \in DOMAIN dict

Put(dict, k, v) == [x \in (DOMAIN dict) \cup {k} |-> IF x = k THEN v ELSE dict[x]]

SetDefault(dict, k, v) == IF Has(dict, k) THEN dict ELSE Put(dict, k, v)

Get(dict, k) == IF Has(dict, k) THEN dict[k] ELSE NoVal

(***************************************************************************)
(* str.lower() over the error codes the wiki may send                      *)
(***************************************************************************)
ApiCodes ==
    {"maxlag", "MaxLag", "ratelimited", "internal_api_error_DBQueryError",
     "badtoken", "notloggedin", "permissiondenied", ""}

Lower(code) ==
    CASE code = "MaxLag" -> "maxlag"
      [] code = "internal_api_error_DBQueryError" -> "internal_api_error_dbqueryerror"
      [] OTHER -> code

(***************************************************************************)
(* What one POST can come back with.                                       *)
(*   kind "transport": session.post raised a requests.RequestException     *)
(*   kind "http": a response; body "ok" is JSON without an error key,      *)
(*        body "nonjson" is not JSON, any other body is the error.code of  *)
(*        a JSON error payload                                             *)
(*   ra: the Retry-After header (NoVal when absent)                        *)
(*   applied: the wiki carried the write out                               *)
(***************************************************************************)
RetryAfters == {NoVal, "soon", "0", "3"}

\* float(ra), in tenths of a second; "soon" is not a number
FloatOk(ra) == ra \in {"0", "3"}

Float(ra) == IF ra = "3" THEN 30 ELSE 0

Responses ==
    [kind : {"http"}, status : {200}, ra : {NoVal}, body : {"ok"}, applied : {TRUE}]
    \cup [kind : {"http"}, status : {200}, ra : {NoVal}, body : ApiCodes \cup {"nonjson"}, applied : {FALSE}]
    \cup [kind : {"http"}, status : {503}, ra : RetryAfters, body : {"nonjson"}, applied : {FALSE}]
    \cup [kind : {"http"}, status : {502}, ra : {NoVal}, body : {"nonjson"}, applied : {FALSE}]
    \cup [kind : {"http"}, status : {504}, ra : {NoVal}, body : {"nonjson"}, applied : BOOLEAN]
    \cup [kind : {"http"}, status : {400, 500}, ra : {NoVal}, body : {"nonjson"}, applied : {FALSE}]
    \cup [kind : {"http"}, status : {429}, ra : {NoVal, "3"}, body : {"nonjson"}, applied : {FALSE}]
    \cup [kind : {"transport"}, status : {0}, ra : {NoVal}, body : {"nonjson"}, applied : BOOLEAN]

\* one response of each kind mw_mutate tells apart
SampleResponses ==
    {resp \in Responses :
        /\ resp.body \in {"ok", "nonjson", "maxlag", "badtoken", "permissiondenied"}
        /\ resp.status \in {0, 200, 400, 503, 504}
        /\ resp.ra = NoVal
        /\ resp.status = 504 => resp.applied}

\* the responses the wiki of this run may give
Answers(s) == IF s.variety = "all" THEN Responses ELSE SampleResponses

IsCleanSuccess(resp) == resp.kind = "http" /\ resp.status = 200 /\ resp.body = "ok"

\* random.random() in 0.8 + 0.4 * random.random(), in tenths
Jitters == {8, 12}

\* the factors a run draws from: both ends, or the middle
JittersOf(s) == IF s.variety = "all" THEN Jitters ELSE {10}

Pow2(n) == IF n <= 0 THEN 1 ELSE IF n = 1 THEN 2 ELSE IF n = 2 THEN 4 ELSE IF n = 3 THEN 8 ELSE 16

Max(a, b) == IF a >= b THEN a ELSE b

\* base_sleep * (2 ** (attempt - 1)) * (0.8 + 0.4 * random.random())
Backoff(att, jit) == (base_sleep * Pow2(att - 1) * jit) \div 10

\* the sleep chosen for a retryable HTTP status
RetrySleep(resp, att, jit) ==
    IF resp.ra # NoVal
    THEN IF FloatOk(resp.ra) THEN Max(Float(resp.ra), base_sleep) ELSE base_sleep
    ELSE Backoff(att, jit)

(***************************************************************************)
(* Strings as token sequences                                              *)
(***************************************************************************)
RECURSIVE LStrip(_)
LStrip(s) == IF s # <<>> /\ Head(s) = " " THEN LStrip(Tail(s)) ELSE s

RECURSIVE RStrip(_)
RStrip(s) == IF s # <<>> /\ s[Len(s)] = " " THEN RStrip(SubSeq(s, 1, Len(s) - 1)) ELSE s

\* str.strip()
Strip(s) == RStrip(LStrip(s))

\* json.dumps / the wiki's decoding of a value parameter
JsonDumps(x) == <<"json", x>>

JsonLoads(j) == j[2]

(***************************************************************************)
(* The wiki                                                                *)
(***************************************************************************)
Langs == {"en", "nl"}

ItemValue(n) == [numeric_id |-> n, id |-> <<"Q", n>>]

EntitySnak(n) == [snaktype |-> "value", datavalue |-> [type |-> "wikibase-entityid", value |-> ItemValue(n)]]

StringSnak(str) == [snaktype |-> "value", datavalue |-> [type |-> "string", value |-> str]]

\* the snak the wiki stores for a decoded value parameter
SnakOf(v) == IF Has(v, "entity_type") THEN EntitySnak(v.numeric_id) ELSE StringSnak(v.str)

AddSnak(list, snak) == IF \E k \in 1..Len(list) : list[k] = snak THEN list ELSE Append(list, snak)

AddQualifier(claim, prop, snak) ==
    [claim EXCEPT !.qualifiers = Put(@, prop, AddSnak(IF Has(@, prop) THEN @[prop] ELSE <<>>, snak))]

\* the effect of a write the wiki carries out
ApplyWrite(s, p, d) ==
    CASE p.action = "wbcreateclaim" ->
            [s EXCEPT !.claims = Append(@, [id |-> s.nextId,
                                            mainsnak |-> SnakOf(JsonLoads(d.value)),
                                            qualifiers |-> <<>>]),
                      !.nextId = @ + 1]
      [] p.action = "wbsetqualifier" ->
            [s EXCEPT !.claims = [k \in 1..Len(@) |->
                                    IF @[k].id = d.claim
                                    THEN AddQualifier(@[k], d.property, SnakOf(JsonLoads(d.value)))
                                    ELSE @[k]]]
      [] p.action = "wbsetlabel" ->
            [s EXCEPT !.labels = [@ EXCEPT ![d.language] = d.value]]
      [] OTHER -> s

\* the JSON body of a successful write
SuccessJson(s, p) ==
    IF p.action = "wbcreateclaim" THEN [claim |-> [id |-> s.nextId]] ELSE [success |-> 1]

(***************************************************************************)
(* fetch_csrf: a GET of meta=tokens; every failure is a RuntimeError       *)
(***************************************************************************)
FetchOutcomes == {"token", "http_error", "nonjson", "no_token"}

(***************************************************************************)
(* mw_mutate                                                               *)
(***************************************************************************)
NoResult == [kind |-> "none", exc |-> NoVal, status |-> 0, code |-> NoVal, att |-> 0,
             json |-> <<>>, token |-> 0]

IdleFrame == [pc |-> "idle", attempt |-> 0, token |-> 0, p |-> <<>>, d |-> <<>>,
              result |-> NoResult]

NoResp == [kind |-> "none", status |-> 0, ra |-> NoVal, body |-> NoVal, applied |-> FALSE]

\* the record of one call: the order of its POSTs, sleeps and token fetches,
\* its first and latest response, whether all responses so far were of one
\* retryable class, the latest sleep, the number of sleeps and of fetch_csrf calls
NoHist == [log |-> <<>>, first |-> NoResp, last |-> NoResp, all |-> "none",
           lastSleep |-> 0, sleeps |-> 0, fetches |-> 0]

RespClass(resp) ==
    IF resp.kind = "http" /\ resp.status \in RETRYABLE_STATUS THEN "retry_status"
    ELSE IF resp.kind = "http" /\ resp.status = 200 /\ resp.body \in ApiCodes
            /\ Lower(resp.body) \in RETRYABLE_API_CODES THEN "retry_api"
    ELSE "mixed"

Record(h, events, resp, sleep) ==
    [h EXCEPT !.log = @ \o events,
              !.first = IF @.kind = "none" THEN resp ELSE @,
              !.last = resp,
              !.all = IF @ = "none" \/ @ = RespClass(resp) THEN RespClass(resp) ELSE "mixed",
              !.lastSleep = IF sleep > 0 THEN sleep ELSE @,
              !.sleeps = IF sleep > 0 THEN @ + 1 ELSE @,
              !.fetches = @ + Cardinality({k \in 1..Len(events) :
                                              events[k][1] \in {"fetch", "fetch_failed"}})]

\* entry of mw_mutate: copies of params and data, the stable params
MutateEntry(csrf_token, params, data) ==
    [pc |-> "loop", attempt |-> 0, token |-> csrf_token,
     p |-> SetDefault(SetDefault(params, "format", "json"), "maxlag", "5"),
     d |-> data,
     result |-> NoResult]

Inject_TokenOnlyIfAbsent(d, token) ==
    SetDefault(SetDefault(SetDefault(d, "token", token), "assert", "user"), "bot", "1")

\* fields injected at the start of every attempt
Inject(d, token) == SetDefault(SetDefault(Put(d, "token", token), "assert", "user"), "bot", "1")

Returned(json, token, att) ==
    [NoResult EXCEPT !.kind = "return", !.json = json, !.token = token, !.att = att]

Raised(exc, resp, att) ==
    [NoResult EXCEPT !.kind = "raise", !.exc = exc, !.status = resp.status,
                     !.code = resp.body, !.att = att]

\* one pass of the while loop ends in continue
Continue(d, att, token, events, resp, sleep) ==
    /\ m' = [m EXCEPT !.attempt = att, !.d = d, !.token = token]
    /\ hist' = Record(hist, events, resp, sleep)

\* one pass of the while loop ends in return or raise
Finish(d, att, events, resp, result) ==
    /\ m' = [m EXCEPT !.pc = IF result.kind = "return" THEN "returned" ELSE "raised",
                      !.attempt = att, !.d = d, !.result = result]
    /\ hist' = Record(hist, events, resp, 0)

CanRetry_OneMore(att) == att <= max_retries + 1

\* attempt <= max_retries
CanRetry(att) == att <= max_retries

\* except requests.RequestException: retry after a backoff, or re-raise
ExceptRequestException(d, att, resp, exc) ==
    IF CanRetry(att)
    THEN \E jit \in JittersOf(srv) :
            Continue(d, att, m.token, <<<<"post", m.token>>, <<"sleep">>>>,
                     resp, Backoff(att, jit))
    ELSE Finish(d, att, <<<<"post", m.token>>>>, resp, Raised(exc, resp, att))

\* the wiki answers a POST: it may carry the write out, and it spends one
\* of its failures on anything but a clean success
Serve(resp) ==
    /\ IsCleanSuccess(resp) \/ srv.faults > 0
    /\ srv' = [(IF resp.applied THEN ApplyWrite(srv, m.p, Inject(m.d, m.token)) ELSE srv)
                 EXCEPT !.faults = IF IsCleanSuccess(resp) THEN @ ELSE @ - 1]

PostRetryableStatus_NoSleep ==
    /\ m.pc = "loop"
    /\ UNCHANGED fn
    /\ \E resp \in Answers(srv) :
        /\ resp.kind = "http" /\ resp.status \in RETRYABLE_STATUS
        /\ Serve(resp)
        /\ LET att == m.attempt + 1
               d == Inject(m.d, m.token)
           IN IF CanRetry(att)
              THEN Continue(d, att, m.token, <<<<"post", m.token>>>>, resp, 0)
              ELSE ExceptRequestException(d, att, resp, "HTTPError")
    /\ UNCHANGED <<es, mn>>

\* status in RETRYABLE_STATUS: sleep and retry, or raise_for_status
PostRetryableStatus ==
    /\ m.pc = "loop"
    /\ UNCHANGED fn
    /\ \E resp \in Answers(srv) :
        /\ resp.kind = "http" /\ resp.status \in RETRYABLE_STATUS
        /\ Serve(resp)
        /\ LET att == m.attempt + 1
               d == Inject(m.d, m.token)
           IN IF CanRetry(att)
              THEN \E jit \in (IF resp.ra = NoVal THEN JittersOf(srv) ELSE {10}) :
                      Continue(d, att, m.token, <<<<"post", m.token>>, <<"sleep">>>>, resp,
                               RetrySleep(resp, att, jit))
              ELSE ExceptRequestException(d, att, resp, "HTTPError")
    /\ UNCHANGED <<es, mn>>

\* any other status of 400 and above: raise_for_status raises HTTPError
PostHttpError ==
    /\ m.pc = "loop"
    /\ UNCHANGED fn
    /\ \E resp \in Answers(srv) :
        /\ resp.kind = "http" /\ resp.status >= 400 /\ resp.status \notin RETRYABLE_STATUS
        /\ Serve(resp)
        /\ ExceptRequestException(Inject(m.d, m.token), m.attempt + 1, resp, "HTTPError")
    /\ UNCHANGED <<es, mn>>

\* session.post raises: timeout, connection error
PostTransportError ==
    /\ m.pc = "loop"
    /\ UNCHANGED fn
    /\ \E resp \in Answers(srv) :
        /\ resp.kind = "transport"
        /\ Serve(resp)
        /\ ExceptRequestException(Inject(m.d, m.token), m.attempt + 1, resp, "RequestException")
    /\ UNCHANGED <<es, mn>>

\* r.json() raises: requests.JSONDecodeError is a RequestException in
\* requests 2.27 and later, a plain ValueError before
PostNotJson ==
    /\ m.pc = "loop"
    /\ UNCHANGED fn
    /\ \E resp \in Answers(srv), isRequestException \in BOOLEAN :
        /\ resp.kind = "http" /\ resp.status = 200 /\ resp.body = "nonjson"
        /\ Serve(resp)
        /\ IF isRequestException
           THEN ExceptRequestException(Inject(m.d, m.token), m.attempt + 1, resp, "RequestException")
           ELSE Finish(Inject(m.d, m.token), m.attempt + 1, <<<<"post", m.token>>>>, resp,
                       Raised("ValueError", resp, m.attempt + 1))
    /\ UNCHANGED <<es, mn>>

RefreshAndRetry_StaleToken(d, att, resp) ==
    \E fetched \in FetchOutcomes :
        IF fetched = "token"
        THEN Continue(d, att, m.token, <<<<"post", m.token>>, <<"fetch", m.token + 1>>>>, resp, 0)
        ELSE Finish(d, att, <<<<"post", m.token>>, <<"fetch_failed", 0>>>>, resp,
                    Raised("RuntimeError:fetch_csrf", resp, att))

FetchFailed_Retried(d, att, resp) ==
    \E jit \in JittersOf(srv) :
        Continue(d, att, m.token, <<<<"post", m.token>>, <<"fetch_failed", 0>>, <<"sleep">>>>,
                 resp, Backoff(att, jit))

\* fetch_csrf raises RuntimeError, which no except clause of mw_mutate takes
FetchFailed(d, att, resp) ==
    Finish(d, att, <<<<"post", m.token>>, <<"fetch_failed", 0>>>>, resp,
           Raised("RuntimeError:fetch_csrf", resp, att))

\* token = fetch_csrf(session, api_url, user_agent); continue
\* fetch_csrf hands out a token not seen before, or raises RuntimeError
RefreshAndRetry(d, att, resp) ==
    \E fetched \in FetchOutcomes :
        IF fetched = "token"
        THEN Continue(d, att, m.token + 1, <<<<"post", m.token>>, <<"fetch", m.token + 1>>>>, resp, 0)
        ELSE FetchFailed(d, att, resp)

\* "error" in j
PostApiError ==
    /\ m.pc = "loop"
    /\ UNCHANGED fn
    /\ \E resp \in Answers(srv) :
        /\ resp.kind = "http" /\ resp.status = 200 /\ resp.body \in ApiCodes
        /\ Serve(resp)
        /\ LET att == m.attempt + 1
               d == Inject(m.d, m.token)
               code == Lower(resp.body)
           IN IF code \in RETRYABLE_API_CODES /\ CanRetry(att)
              THEN \E jit \in JittersOf(srv) :
                      Continue(d, att, m.token, <<<<"post", m.token>>, <<"sleep">>>>, resp,
                               Backoff(att, jit))
              ELSE IF code \in RETRYABLE_AUTH_CODES /\ CanRetry(att)
              THEN RefreshAndRetry(d, att, resp)
              ELSE Finish(d, att, <<<<"post", m.token>>>>, resp, Raised("RuntimeError", resp, att))
    /\ UNCHANGED <<es, mn>>

\* no error key: return j, token
PostSuccess ==
    /\ m.pc = "loop"
    /\ UNCHANGED fn
    /\ \E resp \in Answers(srv) :
        /\ IsCleanSuccess(resp)
        /\ Serve(resp)
        /\ Finish(Inject(m.d, m.token), m.attempt + 1, <<<<"post", m.token>>>>, resp,
                  Returned(SuccessJson(srv, m.p), m.token, m.attempt + 1))
    /\ UNCHANGED <<es, mn>>

mw_mutate ==
    \/ PostRetryableStatus
    \/ PostHttpError
    \/ PostTransportError
    \/ PostNotJson
    \/ PostApiError
    \/ PostSuccess

(***************************************************************************)
(* Statement inspection: claim_has_value_q, claim_has_qualifier_url,       *)
(* claim_has_qualifier_q                                                   *)
(***************************************************************************)
\* str.upper() of the one-letter prefix of an item id
Upper(c) == IF c = "q" THEN "Q" ELSE c

claim_has_value_q_WrongType(claim, numeric_qid) ==
    /\ Has(claim, "mainsnak")
    /\ claim.mainsnak.snaktype = "value"
    /\ Has(claim.mainsnak, "datavalue")
    /\ claim.mainsnak.datavalue.type = "wikibase-item"
    /\ Has(claim.mainsnak.datavalue.value, "numeric_id")
    /\ claim.mainsnak.datavalue.value.numeric_id = numeric_qid

claim_has_value_q(claim, numeric_qid) ==
    /\ Has(claim, "mainsnak")
    /\ claim.mainsnak.snaktype = "value"
    /\ Has(claim.mainsnak, "datavalue")
    /\ claim.mainsnak.datavalue.type = "wikibase-entityid"
    /\ LET val == claim.mainsnak.datavalue.value
       IN IF Has(val, "numeric_id")
          THEN val.numeric_id = numeric_qid
          ELSE /\ Has(val, "id")
               /\ Upper(val.id[1]) = "Q"
               /\ val.id[2] = numeric_qid

QualifierList(claim, prop) ==
    IF Has(claim, "qualifiers") /\ Has(claim.qualifiers, prop) THEN claim.qualifiers[prop] ELSE <<>>

claim_has_qualifier_url_NoStrip(claim, prop, url) ==
    \E k \in 1..Len(QualifierList(claim, prop)) :
        LET snak == QualifierList(claim, prop)[k]
        IN /\ Has(snak, "datavalue")
           /\ snak.datavalue.type = "string"
           /\ snak.datavalue.value = url

claim_has_qualifier_url(claim, prop, url) ==
    \E k \in 1..Len(QualifierList(claim, prop)) :
        LET snak == QualifierList(claim, prop)[k]
        IN /\ Has(snak, "datavalue")
           /\ snak.datavalue.type = "string"
           /\ Strip(snak.datavalue.value) = Strip(url)

claim_has_qualifier_q(claim, prop, numeric_qid) ==
    \E k \in 1..Len(QualifierList(claim, prop)) :
        LET snak == QualifierList(claim, prop)[k]
        IN /\ Has(snak, "datavalue")
           /\ snak.datavalue.type = "wikibase-entityid"
           /\ LET val == snak.datavalue.value
              IN \/ Has(val, "numeric_id") /\ val.numeric_id = numeric_qid
                 \/ Has(val, "id") /\ val.id[1] = "Q" /\ val.id[2] = numeric_qid

(***************************************************************************)
(* get_p7482_claims: one GET of wbgetclaims through mw_request             *)
(*   "claims"         the JSON lists the entity's P7482 claims             *)
(*   "no_claims_dict" JSON without a claims dict: an API error payload     *)
(*                    (the Action API sends those with status 200) or any  *)
(*                    other shape                                          *)
(*   "http_no_such_entity"  HTTP error whose body names no-such-entity     *)
(*   "http_error"     any other HTTP error                                 *)
(*   "transport"      timeout, connection error                            *)
(*   "nonjson"        the body is not JSON: ValueError                     *)
(***************************************************************************)
ReadOutcomes == {"claims", "no_claims_dict", "http_no_such_entity", "http_error", "transport", "nonjson"}

ReadRaises(outcome) == outcome \in {"http_error", "transport", "nonjson"}

\* what the failed read raises: mw_request lets the exception through
ReadException(outcome) ==
    CASE outcome = "http_error" -> "HTTPError"
      [] outcome = "transport" -> "RequestException"
      [] OTHER -> "ValueError"

get_p7482_claims(s, outcome) == IF outcome = "claims" THEN s.claims ELSE <<>>

\* next((cl for cl in existing if claim_has_value_q(cl, Q_FILE_ONLINE)), None)
TargetIndex(existing) ==
    IF \E k \in 1..Len(existing) : claim_has_value_q(existing[k], Q_FILE_ONLINE)
    THEN CHOOSE k \in 1..Len(existing) :
            /\ claim_has_value_q(existing[k], Q_FILE_ONLINE)
            /\ \A j \in 1..(k - 1) : ~claim_has_value_q(existing[j], Q_FILE_ONLINE)
    ELSE 0

(***************************************************************************)
(* URL tests.  A URL is a sequence of tokens: a scheme token, host and     *)
(* path tokens, whitespace tokens.                                         *)
(***************************************************************************)
\* resolver_url.startswith(("http://", "https://"))
StartsWithHttpScheme(url) == url # <<>> /\ url[1] \in {"http://", "https://"}

\* urlparse(url_str): scheme in ("http", "https") and a netloc
IsAbsoluteHttpUrl(url_str) == StartsWithHttpScheme(url_str) /\ Len(url_str) >= 2

(***************************************************************************)
(* The write helpers: the params and data each hands to mw_mutate          *)
(***************************************************************************)
CreateParams == [action |-> "wbcreateclaim"]

CreateData(mid) ==
    [entity |-> mid, property |-> P_SOURCE_OF_FILE, snaktype |-> "value",
     value |-> JsonDumps([entity_type |-> "item", numeric_id |-> Q_FILE_ONLINE])]

QualifierParams == [action |-> "wbsetqualifier", format |-> "json", maxlag |-> "5"]

QualifierUrlData(csrf, claim_id, prop, url) ==
    [claim |-> claim_id, property |-> prop, snaktype |-> "value",
     value |-> JsonDumps([str |-> Strip(url)]),
     token |-> csrf, bot |-> "1", assert |-> "user"]

QualifierQData(csrf, claim_id, prop, numeric_qid) ==
    [claim |-> claim_id, property |-> prop, snaktype |-> "value",
     value |-> JsonDumps([entity_type |-> "item", numeric_id |-> numeric_qid]),
     token |-> csrf, bot |-> "1", assert |-> "user"]

LabelParams == [action |-> "wbsetlabel"]

LabelData(mid, lang, value) == [id |-> mid, language |-> lang, value |-> value]

(***************************************************************************)
(* ensure_statement                                                        *)
(***************************************************************************)
NoCall == [status |-> "none", exc |-> NoVal, cid |-> 0, read |-> NoVal, pre |-> <<>>,
           writes |-> <<>>, faults |-> 0, csrf_in |-> 0, csrf_out |-> 0, last |-> 0,
           chained |-> TRUE]

\* pc: idle, create, url, q (a write is under way), returned, raised
\* cur: the call under way - the claims before it, what its read came back
\*      with, its writes (one entry per mw_mutate call, with the POSTs made),
\*      the token the call was given and the token it returned, the token
\*      its latest write returned, whether every write so far began with
\*      the token the write before it returned (the first with csrf_in)
\* done: the finished calls; calls: the calls the caller makes
IdleEs == [pc |-> "idle", calls |-> 0, csrf |-> 0, mid |-> NoVal, resolver_url |-> <<>>,
           path |-> NoVal, target |-> <<>>, cid |-> 0, need_update |-> FALSE,
           cur |-> NoCall, done |-> <<>>]

\* calls of ensure_statement made in a row on the same entity and URL
MaxCalls == 2

Launch(f, pc, params, data) ==
    /\ m' = MutateEntry(f.csrf, params, data)
    /\ hist' = NoHist
    /\ es' = [f EXCEPT !.pc = pc]

EsReturn(f, status) ==
    /\ es' = [f EXCEPT !.pc = "returned",
                       !.cur = NoCall,
                       !.done = Append(@, [f.cur EXCEPT !.status = status, !.cid = f.cid,
                                                        !.csrf_out = f.csrf,
                                                        !.faults = MaxFaults - srv'.faults])]
    /\ m' = IdleFrame
    /\ hist' = NoHist

EsRaise(f, exc) ==
    /\ es' = [f EXCEPT !.pc = "raised",
                       !.cur = NoCall,
                       !.done = Append(@, [f.cur EXCEPT !.status = "raised:" \o exc, !.exc = exc,
                                                        !.cid = f.cid,
                                                        !.faults = MaxFaults - srv'.faults])]
    /\ m' = IdleFrame
    /\ hist' = NoHist

\* add_qualifier_q(session, csrf, cid, P_OPERATOR, Q_DELPHER) begins
BeginQualifierQ(f) ==
    Launch(f, "q", QualifierParams, QualifierQData(f.csrf, f.cid, P_OPERATOR, Q_DELPHER))

\* add_qualifier_url(session, csrf, cid, P_DESCRIBED_AT_URL, resolver_url)
\* begins: it raises ValueError for a URL that is no absolute http(s) URL
BeginQualifierUrl(f) ==
    IF Strip(f.resolver_url) # <<>> /\ IsAbsoluteHttpUrl(Strip(f.resolver_url))
    THEN Launch(f, "url", QualifierParams,
                QualifierUrlData(f.csrf, f.cid, P_DESCRIBED_AT_URL, f.resolver_url))
    ELSE EsRaise(f, "ValueError")

\* lines 1559-1563: the operator qualifier of an existing claim, the result
OperatorStep(f) ==
    IF ~claim_has_qualifier_q(f.target, P_OPERATOR, Q_DELPHER)
    THEN BeginQualifierQ(f)
    ELSE EsReturn(f, IF f.need_update THEN "updated" ELSE "already-present")

\* ensure_statement from its first line to its first write, return or raise
EnsureStatementFrom(f0, outcome) ==
    LET f == [f0 EXCEPT !.cur = [NoCall EXCEPT !.read = outcome, !.pre = srv.claims,
                                               !.csrf_in = f0.csrf],
                        !.need_update = FALSE, !.cid = 0, !.target = <<>>, !.path = NoVal]
        existing == get_p7482_claims(srv, outcome)
        k == TargetIndex(existing)
    IN IF Strip(f.resolver_url) = <<>> \/ ~StartsWithHttpScheme(f.resolver_url)
       THEN EsRaise([f EXCEPT !.cur.read = NoVal], "ValueError")
       ELSE IF ReadRaises(outcome)
       THEN EsRaise(f, ReadException(outcome))
       ELSE IF k = 0
       THEN Launch([f EXCEPT !.path = "new"], "create", CreateParams, CreateData(f.mid))
       ELSE LET g == [f EXCEPT !.path = "existing", !.target = existing[k], !.cid = existing[k].id]
            IN IF ~claim_has_qualifier_url(g.target, P_DESCRIBED_AT_URL, g.resolver_url)
               THEN BeginQualifierUrl(g)
               ELSE OperatorStep(g)

\* the wiki knows nothing of the entity
NoSuchEntity(s) == s.claims = <<>> /\ \A l \in Langs : s.labels[l] = <<>>

\* the wiki answers the read; it spends a failure on anything but the claims
ServeRead(outcome) ==
    /\ outcome = "claims" \/ srv.faults > 0
    /\ outcome = "http_no_such_entity" => NoSuchEntity(srv)
    /\ srv' = [srv EXCEPT !.faults = IF outcome = "claims" THEN @ ELSE @ - 1]

\* a call of ensure_statement; a later call has the same entity and URL and
\* the token the caller holds
EnsureStatement ==
    /\ es.pc \in {"idle", "returned", "raised"}
    /\ UNCHANGED fn
    /\ Len(es.done) < es.calls
    /\ \E outcome \in ReadOutcomes :
        /\ IF Strip(es.resolver_url) = <<>> \/ ~StartsWithHttpScheme(es.resolver_url)
           THEN outcome = "claims" /\ UNCHANGED srv
           ELSE ServeRead(outcome)
        /\ EnsureStatementFrom(es, outcome)
    /\ UNCHANGED mn

\* the write just finished, as the tally of the call records it
WriteDone ==
    [action |-> m.p.action,
     claim |-> IF Has(m.d, "claim") THEN m.d.claim ELSE 0,
     property |-> m.d.property,
     posts |-> m.attempt,
     ok |-> m.pc = "returned"]

TakeToken_Dropped(f) == f

\* cid, csrf = create_p7482_claim(...); _, csrf = add_qualifier_url(...);
\* _, csrf = add_qualifier_q(...)
TakeToken(f) == [f EXCEPT !.csrf = m.result.token]

\* a write helper comes back: ensure_statement goes on, or the exception
\* passes through it
EnsureStatementResume ==
    /\ es.pc \in {"create", "url", "q"}
    /\ UNCHANGED fn
    /\ m.pc \in {"returned", "raised"}
    /\ UNCHANGED <<srv, mn>>
    /\ LET f == [es EXCEPT !.cur.writes = Append(@, WriteDone),
                           !.cur.chained = @ /\ hist.log[1][2] = (IF es.cur.writes = <<>>
                                                                  THEN es.cur.csrf_in
                                                                  ELSE es.cur.last),
                           !.cur.last = m.result.token]
       IN IF m.pc = "raised"
          THEN EsRaise(f, m.result.exc)
          ELSE LET g == TakeToken(f)
               IN CASE es.pc = "create" ->
                         BeginQualifierUrl([g EXCEPT !.cid = m.result.json.claim.id])
                    [] es.pc = "url" ->
                         IF g.path = "new"
                         THEN BeginQualifierQ(g)
                         ELSE OperatorStep([g EXCEPT !.need_update = TRUE])
                    [] es.pc = "q" ->
                         IF g.path = "new"
                         THEN EsReturn(g, "created")
                         ELSE EsReturn([g EXCEPT !.need_update = TRUE], "updated")

(***************************************************************************)
(* extract_mid, pageid_from_mid.  The URL cell is a sequence of tokens.    *)
(***************************************************************************)
\* tokens of the shape [Mm]\d+
MidTokens == {"M1", "m1"}

UpperMid(tok) == IF tok = "m1" THEN "M1" ELSE tok

\* tokens that begin with one of / ? #
UrlTailTokens == {"/", "?x"}

\* MID_RE = /(M\d+)(?:[/?#].*)?$ , re.IGNORECASE: where it matches
MID_RE(s) ==
    {k \in 1..(Len(s) - 1) :
        /\ s[k] = "/" /\ s[k + 1] \in MidTokens
        /\ (k + 1 = Len(s) \/ s[k + 2] \in UrlTailTokens)}

extract_mid(entity_url) ==
    LET s == Strip(entity_url)
    IN IF s = <<>> THEN NoVal
       ELSE IF MID_RE(s) # {}
       THEN UpperMid(s[(CHOOSE k \in MID_RE(s) : \A j \in MID_RE(s) : k <= j) + 1])
       ELSE IF Len(s) = 1 /\ s[1] \in MidTokens THEN UpperMid(s[1])
       ELSE NoVal

\* int(m.group(1)) of [Mm](\d+), None (0 here, as falsy) when it does not match
pageid_from_mid(mid) == IF mid \in {"M1", "m1"} THEN 1 ELSE 0

(***************************************************************************)
(* get_live_file_title, derive_caption_from_live_title.  A title is a      *)
(* sequence of tokens: a File: prefix, words, "_", " ", an (IA ...)        *)
(* parenthetical, an extension.                                            *)
(***************************************************************************)
LiveTitles ==
    {<<"File:", "Rot", " ", "(IA x)", ".pdf">>,
     <<"file:", "a", "_", "_", "b", ".PDF">>,
     <<"File:", " ", "(ia x)", " ", ".jpg">>,
     <<"File:", ".pdf">>}

\* what the query for the page title comes back with
TitleAnswers ==
    [kind : {"title"}, title : LiveTitles]
    \cup {[kind |-> k, title |-> <<>>] : k \in {"missing", "http_error", "transport"}}

NoAnswer == [kind |-> "none", title |-> <<>>]

TitleRaises(ans) == ans.kind \in {"http_error", "transport"}

TitleException(ans) == IF ans.kind = "http_error" THEN "HTTPError" ELSE "RequestException"

\* the title, or None (the empty title here: both are falsy)
get_live_file_title(ans) ==
    IF ans.kind = "title" /\ Strip(ans.title) # <<>> THEN ans.title ELSE <<>>

\* a Python value handed to a function: a str, None or a float (the NaN of
\* an empty cell)
PyStr(text) == [type |-> "str", str |-> text]

PyNone == [type |-> "NoneType", str |-> <<>>]

PyNaN == [type |-> "float", str |-> <<>>]

\* name[:5].lower() == "file:"
FilePrefixes == {"File:", "file:", "FILE:"}

Underscores(name) == [k \in 1..Len(name) |-> IF name[k] = "_" THEN " " ELSE name[k]]

\* \.(pdf|jpg|jpeg|png|tif|tiff|djvu)$ , re.IGNORECASE
Extensions == {".pdf", ".PDF", ".jpg", ".jpeg", ".png", ".tif", ".tiff", ".TIFF", ".djvu"}

\* IA_TRAIL_RE = \s*\(IA[^)]*\)\s*$ , re.IGNORECASE
IaParentheticals == {"(IA x)", "(ia x)", "(IA KBDDD02 000201168 mpeg21)"}

IA_TRAIL_RE_sub_CaseSensitive(name) ==
    LET r == RStrip(name)
    IN IF r # <<>> /\ r[Len(r)] \in IaParentheticals \ {"(ia x)"}
       THEN RStrip(SubSeq(r, 1, Len(r) - 1))
       ELSE name

IA_TRAIL_RE_sub(name) ==
    LET r == RStrip(name)
    IN IF r # <<>> /\ r[Len(r)] \in IaParentheticals
       THEN RStrip(SubSeq(r, 1, Len(r) - 1))
       ELSE name

\* re.sub(r"\s+", " ", name)
RECURSIVE Collapse(_)
Collapse(name) ==
    IF Len(name) < 2 THEN name
    ELSE IF name[1] = " " /\ name[2] = " " THEN Collapse(Tail(name))
    ELSE <<name[1]>> \o Collapse(Tail(name))

derive_caption_from_live_title(live_title) ==
    IF live_title.type # "str" \/ Strip(live_title.str) = <<>> THEN <<>>
    ELSE LET n0 == Strip(live_title.str)
             n1 == IF n0[1] \in FilePrefixes THEN Tail(n0) ELSE n0
             n2 == Strip(Underscores(n1))
             n3 == IF n2 # <<>> /\ n2[Len(n2)] \in Extensions
                   THEN SubSeq(n2, 1, Len(n2) - 1) ELSE n2
             n4 == Strip(IA_TRAIL_RE_sub(n3))
         IN Strip(Collapse(n4))

(***************************************************************************)
(* get_existing_labels                                                     *)
(***************************************************************************)
\* what wbgetentities comes back with: the entity's labels, a body without
\* an entities dict (an API error payload), an HTTP error with or without
\* the no-such-entity code, no response, a body that is no JSON
LabelReadOutcomes ==
    {"entities", "no_entities", "http_no_such_entity", "http_error", "transport", "nonjson"}

LabelReadRaises(outcome) == outcome \in {"http_error", "transport", "nonjson"}

\* lang -> stripped value, for the labels whose stripped value is not empty
get_existing_labels(s, outcome) ==
    IF outcome = "entities"
    THEN [l \in {x \in Langs : Strip(s.labels[x]) # <<>>} |-> Strip(s.labels[l])]
    ELSE <<>>

(***************************************************************************)
(* main: the row loop.  srv holds the entity of the row under way.         *)
(***************************************************************************)
\* what main has done for one row: the statuses loaded from the sheet, the
\* candidate once derived, the labels of the entity when the caption step
\* began, what the label read came back with, the set_label calls made, the
\* wbsetlabel POSTs per language and the number of writes (mw_mutate calls)
\* that came back with a result
NoRow == [loaded |-> <<>>, derived |-> FALSE, candidate |-> <<>>, labels0 |-> <<>>,
          read |-> NoVal, set_label |-> <<>>, posts |-> [l \in Langs |-> 0],
          compared |-> {}, written |-> 0]

\* pc: idle, row (at the top of the loop), statement (ensure_statement under
\*     way), caption (before the caption step), label (set_label under
\*     way), done (after the final write_back), exit (the run has ended on
\*     an exception that nothing catches)
\* flushed_at: the row after which the latest write_back of the loop ran;
\*     flushed_rows: the rows of the DataFrame the latest write_back was given
\* wiki: for a sheet whose rows name different entities, the entity and the
\*     page title of each row as the wiki holds them before the run (empty
\*     for a sheet of one row, whose entity srv holds from the start)
\* fresh: the token most recently handed out to the run, by the login or by
\*     a mutating call that came back with a result; fresh_by: that call
IdleMn == [pc |-> "idle", idx |-> 0, df |-> <<>>, checkpoint_every |-> 0, csrf |-> 0,
           mid |-> NoVal, pageid |-> 0, live_title |-> <<>>, candidate |-> <<>>,
           labels |-> <<>>, lang |-> NoVal, row_had_change |-> FALSE,
           success_since_flush |-> 0, write_backs |-> 0, flushed_at |-> 0, flushed_rows |-> 0,
           exc |-> NoVal,
           fresh |-> 0, fresh_by |-> NoVal, wiki |-> <<>>,
           cur |-> NoRow, rows |-> <<>>]

StatusCol(lang) == IF lang = "en" THEN "CaptionENStatus" ELSE "CaptionNLStatus"

\* f"error:{e}", f"error:{em}" with em = "HTTP <status> <code>"
ErrorStatus(exc) == IF exc = "HTTPError" THEN "error:HTTP" ELSE "error:" \o exc

\* x or "skipped-empty-candidate"
OrSkipped(x) == IF x # "" THEN x ELSE "skipped-empty-candidate"

\* resolver.startswith("http")
StartsWithHttp(resolver) == resolver # <<>> /\ resolver[1] \in {"http", "http://", "https://"}

WriteBackOutcomes == {"written", "SystemExit"}

\* the exception leaves main
Exit(f, exc) ==
    /\ mn' = [f EXCEPT !.pc = "exit", !.exc = exc]
    /\ m' = IdleFrame
    /\ hist' = NoHist

\* the loop goes to its next row
NextRow(f) ==
    /\ mn' = [f EXCEPT !.pc = "row", !.idx = @ + 1, !.rows = Append(@, f.cur), !.cur = NoRow,
                       !.mid = NoVal, !.pageid = 0, !.live_title = <<>>, !.candidate = <<>>,
                       !.labels = <<>>, !.lang = NoVal, !.row_had_change = FALSE]
    /\ m' = IdleFrame
    /\ hist' = NoHist

EndRow_CounterKept(f) ==
    IF ~f.row_had_change THEN NextRow(f)
    ELSE IF f.success_since_flush + 1 < f.checkpoint_every
    THEN NextRow([f EXCEPT !.success_since_flush = @ + 1])
    ELSE NextRow([f EXCEPT !.success_since_flush = @ + 1, !.write_backs = @ + 1,
                           !.flushed_at = f.idx, !.flushed_rows = Len(f.df)])

\* lines 2049-2062: the checkpoint after a row that changed something
EndRow(f) ==
    IF ~f.row_had_change THEN NextRow(f)
    ELSE IF f.success_since_flush + 1 < f.checkpoint_every
    THEN NextRow([f EXCEPT !.success_since_flush = @ + 1])
    ELSE \E wb \in WriteBackOutcomes :
            IF wb = "written"
            THEN NextRow([f EXCEPT !.success_since_flush = 0, !.write_backs = @ + 1,
                                   !.flushed_at = f.idx, !.flushed_rows = Len(f.df)])
            ELSE Exit([f EXCEPT !.success_since_flush = @ + 1], "SystemExit")

CaptionExcept_Overwrites(f, exc) ==
    EndRow([f EXCEPT !.df[f.idx] =
                [@ EXCEPT !.CaptionENStatus = ErrorStatus(exc),
                          !.CaptionNLStatus = ErrorStatus(exc)]])

\* the except clauses of the caption step: an error status for the caption
\* columns that are still empty
CaptionExcept(f, exc) ==
    EndRow([f EXCEPT !.df[f.idx] =
                [@ EXCEPT !.CaptionENStatus = IF @ = "" THEN ErrorStatus(exc) ELSE @,
                          !.CaptionNLStatus = IF @ = "" THEN ErrorStatus(exc) ELSE @]])

\* set_label(session, csrf, mid, lang, candidate) begins: it raises
\* ValueError for a blank value
BeginSetLabel(f0, lang) ==
    LET f == [f0 EXCEPT !.cur.set_label = Append(@, lang)]
    IN IF Strip(f.candidate) = <<>>
       THEN CaptionExcept(f, "ValueError")
       ELSE /\ m' = MutateEntry(f.csrf, LabelParams, LabelData(f.mid, lang, f.candidate))
            /\ hist' = NoHist
            /\ mn' = [f EXCEPT !.pc = "label", !.lang = lang]

AlreadyPresent(f, lang) == [f EXCEPT !.df[f.idx][StatusCol(lang)] = "already-present"]

\* lines 2013-2019
LabelNl(f0) ==
    LET f == [f0 EXCEPT !.cur.compared = @ \cup {"nl"}]
    IN IF ~Has(f.labels, "nl")
       THEN BeginSetLabel(f, "nl")
       ELSE EndRow(AlreadyPresent(f, "nl"))

\* lines 2005-2011
LabelEn(f0) ==
    LET f == [f0 EXCEPT !.cur.compared = @ \cup {"en"}]
    IN IF ~Has(f.labels, "en")
       THEN BeginSetLabel(f, "en")
       ELSE LabelNl(AlreadyPresent(f, "en"))

\* the wiki answers a GET: it spends one of its failures when cost = 1
ServeGet(cost) ==
    /\ cost <= srv.faults
    /\ srv' = [srv EXCEPT !.faults = @ - cost]

\* the requests of a row go to the entity the row names
EntityOfRow(s, f) ==
    IF f.wiki = <<>> THEN s
    ELSE [s EXCEPT !.claims = f.wiki[f.idx].claims, !.labels = f.wiki[f.idx].labels,
                   !.nextId = Len(f.wiki[f.idx].claims) + 1]

\* what the query for the title of the row's page may come back with
TitleAnswersOf(f) ==
    IF f.wiki = <<>> THEN TitleAnswers
    ELSE {ans \in TitleAnswers :
            \/ TitleRaises(ans)
            \/ ans.kind = "title" /\ ans.title = f.wiki[f.idx].title
            \/ ans.kind = "missing" /\ f.wiki[f.idx].title = <<>>}

StatementStep_RefusalEndsRow(f) ==
    LET resolver == f.df[f.idx].resolver
    IN IF resolver # <<>> /\ StartsWithHttp(resolver)
       THEN /\ es' = [IdleEs EXCEPT !.calls = 1, !.csrf = f.csrf, !.mid = f.mid,
                                    !.resolver_url = resolver]
            /\ mn' = [f EXCEPT !.pc = "statement"]
       ELSE /\ es' = IdleEs
            /\ mn' = [f EXCEPT !.pc = "row", !.idx = @ + 1, !.rows = Append(@, f.cur),
                               !.cur = NoRow,
                               !.df[f.idx].SDCStatus = "error: bad ResolverURL"]

\* lines 1962-1974: the statement step up to the call of ensure_statement
StatementStep(f) ==
    LET resolver == f.df[f.idx].resolver
    IN IF resolver # <<>> /\ StartsWithHttp(resolver)
       THEN /\ es' = [IdleEs EXCEPT !.calls = 1, !.csrf = f.csrf, !.mid = f.mid,
                                    !.resolver_url = resolver]
            /\ mn' = [f EXCEPT !.pc = "statement"]
       ELSE /\ es' = IdleEs
            /\ mn' = [f EXCEPT !.pc = "caption",
                               !.df[f.idx].SDCStatus = "error: bad ResolverURL"]

\* lines 1928-1974: the top of a row, down to the call of ensure_statement
RowBegin ==
    /\ mn.pc = "row"
    /\ UNCHANGED fn
    /\ mn.idx <= Len(mn.df)
    /\ UNCHANGED <<m, hist>>
    /\ LET row == mn.df[mn.idx]
           mid == extract_mid(row.url)
           f0 == [mn EXCEPT !.cur.loaded = row]
       IN IF mid = NoVal
          THEN /\ mn' = [f0 EXCEPT !.pc = "row", !.idx = @ + 1,
                                   !.rows = Append(@, f0.cur), !.cur = NoRow,
                                   !.df[mn.idx] =
                                       [row EXCEPT !.SDCStatus = "error: no MID in URL",
                                                   !.CaptionENStatus = OrSkipped(@),
                                                   !.CaptionNLStatus = OrSkipped(@)]]
               /\ UNCHANGED <<srv, es>>
          ELSE \E ans \in (IF pageid_from_mid(mid) # 0 THEN TitleAnswersOf(mn) ELSE {NoAnswer}) :
                  /\ (IF TitleRaises(ans) THEN 1 ELSE 0) <= srv.faults
                  /\ srv' = [EntityOfRow(srv, mn) EXCEPT
                                !.faults = @ - (IF TitleRaises(ans) THEN 1 ELSE 0)]
                  /\ IF TitleRaises(ans)
                     THEN /\ mn' = [f0 EXCEPT !.pc = "exit", !.exc = TitleException(ans)]
                          /\ es' = IdleEs
                     ELSE StatementStep([f0 EXCEPT !.mid = mid,
                                                   !.pageid = pageid_from_mid(mid),
                                                   !.live_title = get_live_file_title(ans),
                                                   !.row_had_change = FALSE])

\* the writes of a call of ensure_statement that came back with a result
Returns(writes) == Cardinality({k \in 1..Len(writes) : writes[k].ok})

\* lines 1964-1985: ensure_statement comes back
StatementDone ==
    /\ mn.pc = "statement"
    /\ UNCHANGED fn
    /\ es.pc \in {"returned", "raised"}
    /\ UNCHANGED <<m, hist, srv>>
    /\ es' = IdleEs
    /\ LET call == es.done[1]
       IN IF es.pc = "returned"
          THEN mn' = [mn EXCEPT !.pc = "caption", !.csrf = es.csrf,
                                !.df[mn.idx].SDCStatus = call.status,
                                !.row_had_change = call.status \in {"created", "updated"},
                                !.cur.written = Returns(call.writes),
                                !.fresh = es.csrf,
                                !.fresh_by = IF es.csrf # mn.fresh THEN "statement" ELSE @]
          ELSE mn' = [mn EXCEPT !.pc = "caption",
                                !.df[mn.idx].SDCStatus = ErrorStatus(call.exc),
                                !.cur.written = Returns(call.writes)]

CandidateIsBlank_Never(candidate) == candidate = <<NoVal>>

\* not candidate.strip()
CandidateIsBlank(candidate) == Strip(candidate) = <<>>

\* lines 1988-2019: the caption step up to its first set_label call, or to
\* the end of the row
CaptionStep ==
    /\ mn.pc = "caption"
    /\ UNCHANGED fn
    /\ UNCHANGED es
    /\ \E ans \in (IF mn.pageid # 0 /\ mn.live_title = <<>> THEN TitleAnswersOf(mn) ELSE {NoAnswer}),
          outcome \in LabelReadOutcomes \cup {NoVal} :
          LET live_title == IF ans = NoAnswer THEN mn.live_title ELSE get_live_file_title(ans)
              candidate == derive_caption_from_live_title(PyStr(live_title))
              reads == /\ mn.pageid # 0 /\ ~TitleRaises(ans) /\ live_title # <<>>
                       /\ ~CandidateIsBlank(candidate)
              f == [mn EXCEPT !.live_title = live_title, !.cur.labels0 = srv.labels]
              g == [f EXCEPT !.candidate = candidate,
                             !.df[mn.idx].CaptionCandidate = candidate,
                             !.cur.derived = TRUE, !.cur.candidate = candidate]
          IN /\ (outcome # NoVal) <=> reads
             /\ outcome = "http_no_such_entity" => NoSuchEntity(srv)
             /\ ServeGet((IF TitleRaises(ans) THEN 1 ELSE 0)
                         + (IF outcome \notin {NoVal, "entities"} THEN 1 ELSE 0))
             /\ IF mn.pageid = 0 THEN CaptionExcept(f, "RuntimeError")
                ELSE IF TitleRaises(ans) THEN CaptionExcept(f, TitleException(ans))
                ELSE IF live_title = <<>> THEN CaptionExcept(f, "RuntimeError")
                ELSE IF CandidateIsBlank(candidate)
                THEN EndRow([g EXCEPT !.df[mn.idx] =
                                [@ EXCEPT !.CaptionENStatus = OrSkipped(@),
                                          !.CaptionNLStatus = OrSkipped(@)]])
                ELSE LET h == [g EXCEPT !.cur.read = outcome,
                                        !.labels = get_existing_labels(srv, outcome)]
                     IN IF LabelReadRaises(outcome)
                        THEN CaptionExcept(h, ReadException(outcome))
                        ELSE LabelEn(h)

\* set_label comes back: it hands on the JSON and drops the token; whatever
\* mw_mutate raised leaves it as a RuntimeError
LabelDone ==
    /\ mn.pc = "label"
    /\ UNCHANGED fn
    /\ m.pc \in {"returned", "raised"}
    /\ UNCHANGED <<srv, es>>
    /\ LET f == [mn EXCEPT !.cur.posts[mn.lang] = @ + m.attempt]
       IN IF m.pc = "raised"
          THEN CaptionExcept(f, "RuntimeError")
          ELSE LET g == [f EXCEPT !.df[mn.idx][StatusCol(mn.lang)] = "created",
                                  !.row_had_change = TRUE,
                                  !.cur.written = @ + 1,
                                  !.fresh = m.result.token,
                                  !.fresh_by = IF m.result.token # mn.fresh THEN "label" ELSE @]
               IN IF mn.lang = "en" THEN LabelNl(g) ELSE EndRow(g)

\* line 2065: the write_back after the loop
Finalize ==
    /\ mn.pc = "row"
    /\ UNCHANGED fn
    /\ mn.idx > Len(mn.df)
    /\ UNCHANGED <<m, hist, srv, es>>
    /\ \E wb \in WriteBackOutcomes :
          IF wb = "written"
          THEN mn' = [mn EXCEPT !.pc = "done", !.write_backs = @ + 1,
                                !.flushed_rows = Len(mn.df)]
          ELSE mn' = [mn EXCEPT !.pc = "exit", !.exc = "SystemExit"]


(***************************************************************************)
(* One call of mw_mutate from each of its call sites, against any          *)
(* sequence of answers of the wiki                                         *)
(***************************************************************************)
Mid == "M1"

GoodUrl == <<"https://", "h">>

TargetClaim(id, quals) == [id |-> id, mainsnak |-> EntitySnak(Q_FILE_ONLINE), qualifiers |-> quals]

NoLabels == [l \in Langs |-> <<>>]

CallSites ==
    {<<CreateParams, CreateData(Mid)>>,
     <<QualifierParams, QualifierUrlData(1, 1, P_DESCRIBED_AT_URL, GoodUrl)>>,
     <<QualifierParams, QualifierQData(1, 1, P_OPERATOR, Q_DELPHER)>>,
     <<LabelParams, LabelData(Mid, "en", <<"t">>)>>}

InitMutate ==
    /\ m = IdleFrame
    /\ fn = IdleFn
    /\ hist = NoHist
    /\ srv = [claims |-> <<TargetClaim(1, <<>>)>>, labels |-> NoLabels, nextId |-> 2,
              faults |-> max_retries + 1, variety |-> "all"]
    /\ es = IdleEs
    /\ mn = IdleMn

CallMutate ==
    /\ m.pc = "idle"
    /\ UNCHANGED fn
    /\ \E site \in CallSites :
        /\ m' = MutateEntry(1, site[1], site[2])
        /\ hist' = NoHist
    /\ UNCHANGED <<srv, es, mn>>

NextMutate ==
    \/ CallMutate
    \/ PostRetryableStatus
    \/ PostHttpError
    \/ PostTransportError
    \/ PostNotJson
    \/ PostApiError
    \/ PostSuccess

SpecMutate == InitMutate /\ [][NextMutate]_vars

MutateTypeOK ==
    /\ m.pc \in {"idle", "loop", "returned", "raised"}
    /\ m.attempt \in 0..(max_retries + 2)
    /\ m.result.kind \in {"none", "return", "raise"}

(***************************************************************************)
(* Properties of mw_mutate (under SpecMutate)                              *)
(***************************************************************************)
Finished == m.pc \in {"returned", "raised"}

Posts == {k \in 1..Len(hist.log) : hist.log[k][1] = "post"}

LastEvent == hist.log[Len(hist.log)]

\* the code sets named in the claims
TransientCodes == {"maxlag", "ratelimited", "internal_api_error"}

AuthCodes == {"badtoken", "assertuserfailed", "assertnameduserfailed", "notloggedin"}

IsApiError(resp) == resp.kind = "http" /\ resp.status = 200 /\ resp.body \in ApiCodes

\* C6: when the first POST of a call gets HTTP 503 and the second gets
\* HTTP 200 with a JSON body without an error key, mw_mutate returns that
\* body after exactly two POSTs with exactly one sleep, between the two.
C6_Retry503ThenSuccess ==
    (/\ m.attempt = 2
     /\ hist.first.kind = "http" /\ hist.first.status = 503
     /\ IsCleanSuccess(hist.last))
    => (/\ m.pc = "returned"
        /\ m.result.kind = "return"
        /\ m.result.json = SuccessJson([srv EXCEPT !.nextId = @ - (IF m.p.action = "wbcreateclaim" THEN 1 ELSE 0)], m.p)
        /\ hist.sleeps = 1
        /\ hist.fetches = 0
        /\ Len(hist.log) = 3
        /\ hist.log[1][1] = "post" /\ hist.log[2][1] = "sleep" /\ hist.log[3][1] = "post")

C6_Witness ==
    /\ m.pc = "returned" /\ m.attempt = 2
    /\ hist.first.status = 503 /\ IsCleanSuccess(hist.last)
    /\ hist.sleeps = 1

\* C7: a JSON error whose code (as the code compares it, lower-cased) is in
\* neither the transient nor the auth set makes mw_mutate raise RuntimeError
\* with that payload on the attempt it arrives: the POST is the last event
\* of the call, no sleep and no token fetch follow it.
C7_NonRetryableRaisesAtOnce ==
    (/\ m.attempt >= 1
     /\ IsApiError(hist.last)
     /\ Lower(hist.last.body) \notin (TransientCodes \cup AuthCodes))
    => (/\ m.pc = "raised"
        /\ m.result.exc = "RuntimeError"
        /\ m.result.code = hist.last.body
        /\ m.result.att = m.attempt
        /\ LastEvent[1] = "post"
        /\ Cardinality(Posts) = m.attempt)

C7_Witness ==
    /\ m.pc = "raised" /\ m.result.exc = "RuntimeError"
    /\ m.attempt = 3
    /\ hist.last.body = "permissiondenied"
    /\ hist.sleeps = 1 /\ hist.fetches = 1

\* C8: one call makes at most max_retries + 1 = 5 POSTs and is over after
\* the fifth; when every attempt got a retryable HTTP status the HTTPError of
\* the last attempt is raised, and when every attempt got a retryable API
\* error code a RuntimeError with the last payload is raised.
C8_BoundedAttempts ==
    /\ m.attempt <= 5
    /\ Cardinality(Posts) = m.attempt
    /\ (m.attempt = 5 => Finished)
    /\ (hist.all \in {"retry_status", "retry_api"} /\ m.attempt < 5 => m.pc = "loop")
    /\ (Finished /\ hist.all = "retry_status"
          => /\ m.result.kind = "raise" /\ m.result.exc = "HTTPError"
             /\ m.result.status = hist.last.status /\ m.result.att = 5)
    /\ (Finished /\ hist.all = "retry_api"
          => /\ m.result.kind = "raise" /\ m.result.exc = "RuntimeError"
             /\ m.result.code = hist.last.body /\ m.result.att = 5)

C8_Witness ==
    /\ m.pc = "raised" /\ m.attempt = 5
    /\ hist.all = "retry_status" /\ hist.sleeps = 4
    /\ hist.first.status = 502 /\ hist.last.status = 503

\* C9: an auth-class error code below the attempt cap is answered by a call
\* of fetch_csrf and no sleep; the POST that follows a fetched token carries
\* that token, which differs from the rejected one; the token returned is
\* the one sent in the successful POST.
C9_RefreshThenImmediateRetry ==
    /\ (/\ m.attempt >= 1 /\ m.attempt <= 4
        /\ IsApiError(hist.last) /\ hist.last.body \in AuthCodes)
       => (/\ LastEvent[1] \in {"fetch", "fetch_failed"}
           /\ LastEvent[1] = "fetch" => (m.pc = "loop" /\ m.token = LastEvent[2])
           /\ LastEvent[1] = "fetch_failed" => m.pc = "raised")
    /\ \A k \in 1..Len(hist.log) :
          hist.log[k][1] = "fetch"
          => (/\ k > 1 /\ hist.log[k - 1][1] = "post"
              /\ hist.log[k][2] # hist.log[k - 1][2]
              /\ k < Len(hist.log) => hist.log[k + 1] = <<"post", hist.log[k][2]>>)
    /\ m.pc = "returned"
       => (/\ LastEvent = <<"post", m.result.token>>
           /\ m.d.token = m.result.token)

C9_Witness ==
    /\ m.pc = "returned" /\ m.attempt = 2
    /\ hist.first.body = "badtoken"
    /\ hist.fetches = 1 /\ hist.sleeps = 0
    /\ m.result.token = 2

\* C10 as claimed: within one call of mw_mutate the CSRF token is fetched at
\* most once.
C10_AtMostOneRefresh == hist.fetches <= 1

\* C11: a failed CSRF refresh (fetch_csrf raising for an HTTP or network
\* failure, a body that is no JSON, or a missing token) ends the call at
\* once: it is the last event of the call, which has raised the RuntimeError
\* of fetch_csrf on the attempt of the rejected POST; no POST, no sleep and
\* no further token fetch follow it.
C11_FailedRefreshRaisesAtOnce ==
    \A k \in 1..Len(hist.log) :
        hist.log[k][1] = "fetch_failed"
        => (/\ k = Len(hist.log)
            /\ hist.log[k - 1] = <<"post", m.token>>
            /\ m.pc = "raised"
            /\ m.result.exc = "RuntimeError:fetch_csrf"
            /\ m.result.att = m.attempt
            /\ Cardinality(Posts) = m.attempt)

C11_Witness ==
    /\ m.pc = "raised" /\ m.attempt = 3
    /\ LastEvent[1] = "fetch_failed"
    /\ hist.sleeps = 1 /\ hist.fetches = 2
    /\ hist.last.body = "notloggedin"

\* the Retry-After header holds a number of seconds
NumericRetryAfter(ra) == ra \in {"0", "3"}

\* C12 as claimed: when a POST below the attempt cap gets HTTP 429, 502, 503
\* or 504 with a Retry-After header holding a number of seconds, the sleep
\* before the next attempt lasts that number of seconds (here in tenths).
C12_RetryAfterHonoured ==
    (/\ m.pc = "loop" /\ m.attempt >= 1 /\ m.attempt <= 4
     /\ hist.last.kind = "http" /\ hist.last.status \in {429, 502, 503, 504}
     /\ NumericRetryAfter(hist.last.ra))
    => (/\ LastEvent = <<"sleep">>
        /\ hist.lastSleep = (IF hist.last.ra = "3" THEN 30 ELSE 0))

\* C13 as claimed: a JSON error code of maxlag, ratelimited or
\* internal_api_error_<Name>, in any letter case, below the attempt cap is
\* followed by a backoff sleep and another attempt, never raised.
C13_TransientCodeRetried ==
    (/\ m.attempt >= 1 /\ m.attempt <= 4
     /\ IsApiError(hist.last)
     /\ hist.last.body \in {"maxlag", "MaxLag", "ratelimited",
                            "internal_api_error_DBQueryError"})
    => (/\ m.pc = "loop" /\ LastEvent = <<"sleep">>
        /\ hist.lastSleep \in {(base_sleep * Pow2(m.attempt - 1) * j) \div 10 : j \in {8, 12}})

\* C30 as claimed: a response whose HTTP status is not 2xx and not one of
\* 502, 503, 504 is raised to the caller on the attempt it occurs, with no
\* retry and no sleep after it.
C30_OtherHttpErrorRaisesAtOnce ==
    (/\ m.attempt >= 1 /\ hist.last.kind = "http"
     /\ hist.last.status >= 300 /\ hist.last.status \notin {502, 503, 504})
    => (/\ m.pc = "raised" /\ m.result.exc = "HTTPError"
        /\ m.result.att = m.attempt /\ LastEvent[1] = "post")

\* the tokens fetch_csrf handed out before the latest POST of the call
FetchedBefore(k) == {j \in 1..(k - 1) : hist.log[j][1] = "fetch"}

\* the most recently obtained token when the latest POST was issued: the
\* caller's token (1 in every call of CallMutate) until a refresh, the latest
\* fetched one afterwards
TokenAtPost(k) ==
    IF FetchedBefore(k) = {} THEN 1
    ELSE hist.log[CHOOSE j \in FetchedBefore(k) : \A i \in FetchedBefore(k) : i <= j][2]

LatestPost == CHOOSE k \in Posts : \A i \in Posts : i <= k

\* C14: every POST of mw_mutate, retries included, carries maxlag and
\* format=json in the query parameters and assert, bot and token in the form
\* data; the token is the most recently obtained one (the caller's until a
\* refresh, the refreshed one afterwards), whatever token the caller put in
\* the data.
C14_EveryPostCarriesStableFields ==
    m.attempt >= 1
    => (/\ Has(m.p, "maxlag") /\ Has(m.p, "format") /\ m.p.format = "json"
        /\ Has(m.d, "assert") /\ Has(m.d, "bot") /\ Has(m.d, "token")
        /\ m.d.token = TokenAtPost(LatestPost)
        /\ Cardinality(Posts) = m.attempt)

\* a wbsetqualifier call, whose data the caller built with token 1, posts
\* its second attempt after a refresh
C14_Witness ==
    /\ m.attempt = 2 /\ m.p.action = "wbsetqualifier"
    /\ hist.first.body = "badtoken" /\ hist.fetches = 1
    /\ hist.log[2] = <<"fetch", 2>> /\ m.d.token = 2

(***************************************************************************)
(* ensure_statement called MaxCalls times in a row on one entity, from any *)
(* initial set of P7482 claims, with the wiki failing up to MaxFaults      *)
(* times                                                                   *)
(***************************************************************************)
PaddedUrl == <<"https://", "h", " ">>

OtherUrl == <<"https://", "h", "/2">>

Q_OTHER == 5

Quals(urls, ops) ==
    (IF urls = <<>> THEN <<>> ELSE [x \in {P_DESCRIBED_AT_URL} |-> urls])
    @@ (IF ops = <<>> THEN <<>> ELSE [x \in {P_OPERATOR} |-> ops])

\* the claims an entity may hold before the program runs, without their ids
InitClaimShapes ==
    {[mainsnak |-> EntitySnak(Q_FILE_ONLINE), qualifiers |-> Quals(<<>>, <<>>)],
     [mainsnak |-> EntitySnak(Q_FILE_ONLINE), qualifiers |-> Quals(<<StringSnak(PaddedUrl)>>, <<>>)],
     [mainsnak |-> EntitySnak(Q_FILE_ONLINE),
      qualifiers |-> Quals(<<StringSnak(OtherUrl)>>, <<EntitySnak(Q_OTHER)>>)],
     [mainsnak |-> EntitySnak(Q_FILE_ONLINE),
      qualifiers |-> Quals(<<StringSnak(OtherUrl), StringSnak(GoodUrl)>>, <<EntitySnak(Q_DELPHER)>>)],
     [mainsnak |-> [snaktype |-> "value",
                    datavalue |-> [type |-> "wikibase-entityid",
                                   value |-> [id |-> <<"q", Q_FILE_ONLINE>>]]],
      qualifiers |-> Quals(<<>>, <<EntitySnak(Q_DELPHER)>>)],
     [mainsnak |-> EntitySnak(Q_OTHER), qualifiers |-> Quals(<<StringSnak(GoodUrl)>>, <<EntitySnak(Q_DELPHER)>>)],
     [mainsnak |-> [snaktype |-> "somevalue"], qualifiers |-> Quals(<<>>, <<>>)]}

WithIds(shapes) ==
    [k \in 1..Len(shapes) |->
        [id |-> k, mainsnak |-> shapes[k].mainsnak, qualifiers |-> shapes[k].qualifiers]]

InitClaimLists ==
    UNION {{WithIds(sh) : sh \in [1..n -> InitClaimShapes]} : n \in 0..MaxInitClaims}

\* the ResolverURL values handed to ensure_statement
ResolverInputs == {PaddedUrl, <<"https://">>, <<" ", "https://", "h">>}

InitEnsure ==
    /\ m = IdleFrame
    /\ fn = IdleFn
    /\ hist = NoHist
    /\ \E cl \in InitClaimLists :
          srv = [claims |-> cl, labels |-> NoLabels, nextId |-> Len(cl) + 1, faults |-> MaxFaults,
                 variety |-> "sample"]
    /\ \E r \in ResolverInputs :
          es = [IdleEs EXCEPT !.calls = MaxCalls, !.mid = Mid, !.resolver_url = r, !.csrf = 1]
    /\ mn = IdleMn

NextEnsure ==
    \/ EnsureStatement
    \/ EnsureStatementResume
    \/ PostRetryableStatus
    \/ PostHttpError
    \/ PostTransportError
    \/ PostNotJson
    \/ PostApiError
    \/ PostSuccess

SpecEnsure == InitEnsure /\ [][NextEnsure]_vars

EnsureTypeOK ==
    /\ es.pc \in {"idle", "create", "url", "q", "returned", "raised"}
    /\ Len(es.done) <= MaxCalls
    /\ srv.faults >= 0

(***************************************************************************)
(* Properties of ensure_statement (under SpecEnsure)                       *)
(***************************************************************************)
RECURSIVE PostsOf(_, _)
PostsOf(writes, action) ==
    IF writes = <<>> THEN 0
    ELSE (IF Head(writes).action = action THEN Head(writes).posts ELSE 0) + PostsOf(Tail(writes), action)

\* the entity holds the statement P7482 = Q74228490: the index of the first
HoldsTarget(cl) ==
    /\ cl.mainsnak.snaktype = "value"
    /\ \/ /\ Has(cl.mainsnak.datavalue.value, "numeric_id")
          /\ cl.mainsnak.datavalue.value.numeric_id = 74228490
       \/ /\ ~Has(cl.mainsnak.datavalue.value, "numeric_id")
          /\ cl.mainsnak.datavalue.value.id[2] = 74228490

FirstTarget(claims) ==
    IF \E k \in 1..Len(claims) : HoldsTarget(claims[k])
    THEN CHOOSE k \in 1..Len(claims) :
            HoldsTarget(claims[k]) /\ \A j \in 1..(k - 1) : ~HoldsTarget(claims[j])
    ELSE 0

\* the claim carries P973 = url (up to surrounding whitespace)
CarriesUrl(cl, url) ==
    /\ Has(cl.qualifiers, "P973")
    /\ \E k \in 1..Len(cl.qualifiers["P973"]) :
          Strip(cl.qualifiers["P973"][k].datavalue.value) = Strip(url)

\* the claim carries P137 = Q20670235
CarriesOperator(cl) ==
    /\ Has(cl.qualifiers, "P137")
    /\ \E k \in 1..Len(cl.qualifiers["P137"]) :
          cl.qualifiers["P137"][k].datavalue.value.numeric_id = 20670235

ValidResolver(url) == url # <<>> /\ url[1] \in {"http://", "https://"} /\ Len(Strip(url)) >= 2

ReturnedStatus(st) == st \in {"created", "updated", "already-present"}

\* C1: from an entity without a P7482=Q74228490 statement, with every API
\* call succeeding, two calls in a row with the same entity and (valid)
\* resolver URL return "created" and then "already-present" and together
\* make exactly one wbcreateclaim POST and two wbsetqualifier POSTs.
C1_CreatedThenAlreadyPresent ==
    (/\ Len(es.done) = 2
     /\ FirstTarget(es.done[1].pre) = 0
     /\ ValidResolver(es.resolver_url)
     /\ es.done[2].faults = 0)
    => (/\ es.done[1].status = "created"
        /\ es.done[2].status = "already-present"
        /\ PostsOf(es.done[1].writes \o es.done[2].writes, "wbcreateclaim") = 1
        /\ PostsOf(es.done[1].writes \o es.done[2].writes, "wbsetqualifier") = 2
        /\ Len(es.done[1].writes) = 3 /\ es.done[2].writes = <<>>)

C1_Witness ==
    /\ Len(es.done) = 2
    /\ FirstTarget(es.done[1].pre) = 0 /\ Len(es.done[1].pre) = 1
    /\ es.done[2].faults = 0
    /\ es.done[1].status = "created" /\ es.done[2].status = "already-present"

\* C2 as claimed: once a call of ensure_statement has returned without
\* raising, the call that follows it with the same entity and URL (its read
\* answered with the entity's claims) returns "already-present" and makes
\* no write.
C2_SecondCallIsNoOp ==
    (/\ Len(es.done) = 2
     /\ ReturnedStatus(es.done[1].status)
     /\ es.done[2].read = "claims")
    => (/\ es.done[2].status = "already-present"
        /\ es.done[2].writes = <<>>)

\* C3: when the statement the call finds (the first P7482=Q74228490 claim
\* the read lists) carries exactly one of the two qualifiers, a call that
\* returns returns "updated" after exactly one write: wbsetqualifier of the
\* missing qualifier on that claim - no wbcreateclaim, nothing for the
\* qualifier that is present, and one POST when the wiki answers it cleanly.
C3_OnlyMissingQualifierWritten ==
    \A n \in 1..Len(es.done) :
        LET call == es.done[n]
            k == FirstTarget(call.pre)
        IN (/\ call.read = "claims"
            /\ ReturnedStatus(call.status)
            /\ k # 0
            /\ CarriesUrl(call.pre[k], es.resolver_url) # CarriesOperator(call.pre[k]))
           => (/\ call.status = "updated"
               /\ call.cid = call.pre[k].id
               /\ Len(call.writes) = 1
               /\ call.writes[1].action = "wbsetqualifier"
               /\ call.writes[1].claim = call.pre[k].id
               /\ call.writes[1].property =
                     (IF CarriesUrl(call.pre[k], es.resolver_url) THEN "P137" ELSE "P973")
               /\ (call.faults = 0 => call.writes[1].posts = 1))

C3_Witness ==
    /\ Len(es.done) >= 1
    /\ es.done[1].read = "claims"
    /\ FirstTarget(es.done[1].pre) = 1
    /\ CarriesUrl(es.done[1].pre[1], es.resolver_url) /\ ~CarriesOperator(es.done[1].pre[1])
    /\ es.done[1].status = "updated"
    /\ es.done[1].writes[1].property = "P137"

\* the claims the entity held before the first call
ClaimsBefore == IF es.done # <<>> THEN es.done[1].pre ELSE es.cur.pre

Targets(claims) == {k \in 1..Len(claims) : HoldsTarget(claims[k])}

\* C28 as claimed: whatever the calls of ensure_statement on one entity meet
\* (writes retried after a transport failure or a lost response, calls
\* that fail midway), the entity never holds more than one P7482=Q74228490
\* statement created by the program.
C28_AtMostOneCreatedStatement ==
    (es.done # <<>> \/ es.pc \in {"create", "url", "q"})
    => Cardinality(Targets(srv.claims)) <= Cardinality(Targets(ClaimsBefore)) + 1

\* C29 as claimed: a call posts wbcreateclaim only after a read that
\* listed the claims without a P7482=Q74228490 statement or reported
\* no-such-entity; a read answered with another API error payload or a
\* malformed body ends the call with an error and without a write.
C29_CreateOnlyAfterGoodRead ==
    \A n \in 1..Len(es.done) :
        LET call == es.done[n]
        IN /\ PostsOf(call.writes, "wbcreateclaim") > 0
                => \/ call.read = "claims" /\ Targets(call.pre) = {}
                   \/ call.read = "http_no_such_entity"
           /\ call.read \in {"no_claims_dict", "nonjson"}
                => call.exc # NoVal /\ call.writes = <<>>

(***************************************************************************)
(* main on a sheet of one row, from any state of the entity and of the     *)
(* row's status columns, with the wiki failing up to MaxFaults times       *)
(***************************************************************************)
UrlInputs ==
    {<<"https://commons.wikimedia.org/entity", "/", "m1", "?x">>,
     <<" ", "m1", " ">>,
     <<"x">>}

MainResolvers == {GoodUrl, <<"http", "h">>, <<>>}

\* the status columns as the sheet holds them: SDCStatus, CaptionENStatus,
\* CaptionNLStatus
LoadedStatuses ==
    {<<"", "", "">>,
     <<"error:HTTP", "error:RuntimeError", "">>}

RowInputs ==
    {[url |-> u, resolver |-> r, SDCStatus |-> st[1], CaptionENStatus |-> st[2],
      CaptionNLStatus |-> st[3], CaptionCandidate |-> <<>>] :
        u \in UrlInputs, r \in MainResolvers, st \in LoadedStatuses}

MainClaimLists ==
    {<<>>,
     <<TargetClaim(1, Quals(<<StringSnak(GoodUrl)>>, <<EntitySnak(Q_DELPHER)>>))>>}

InitLabels == [Langs -> {<<>>, <<"x">>}]

CheckpointSettings == {1, 2}

InitMain ==
    /\ m = IdleFrame
    /\ fn = IdleFn
    /\ hist = NoHist
    /\ es = IdleEs
    /\ \E cl \in MainClaimLists, lb \in InitLabels :
          srv = [claims |-> cl, labels |-> lb, nextId |-> Len(cl) + 1, faults |-> MaxFaults,
                 variety |-> "sample"]
    /\ \E row \in RowInputs, every \in CheckpointSettings :
          mn = [IdleMn EXCEPT !.pc = "row", !.idx = 1, !.df = <<row>>, !.csrf = 1,
                              !.fresh = 1, !.fresh_by = "login",
                              !.checkpoint_every = every]

NextMain ==
    \/ RowBegin
    \/ StatementDone
    \/ CaptionStep
    \/ LabelDone
    \/ Finalize
    \/ EnsureStatement
    \/ EnsureStatementResume
    \/ PostRetryableStatus
    \/ PostHttpError
    \/ PostTransportError
    \/ PostNotJson
    \/ PostApiError
    \/ PostSuccess

SpecMain == InitMain /\ [][NextMain]_vars

(***************************************************************************)
(* main on a sheet of MaxRows rows that name different entities, the first *)
(* without the statement, the others with the statement short of its       *)
(* operator qualifier, all without an nl label, so that a row that meets   *)
(* no failure changes the statement and writes one label; the wiki fails   *)
(* up to MaxFaults times                                                   *)
(***************************************************************************)
MaxRows == 7

LoopRow ==
    [url |-> <<"https://commons.wikimedia.org/entity", "/", "m1", "?x">>, resolver |-> GoodUrl,
     SDCStatus |-> "", CaptionENStatus |-> "", CaptionNLStatus |-> "", CaptionCandidate |-> <<>>]

LoopEntity ==
    [claims |-> <<TargetClaim(1, Quals(<<StringSnak(GoodUrl)>>, <<>>))>>,
     labels |-> [l \in Langs |-> IF l = "en" THEN <<"x">> ELSE <<>>],
     title |-> <<"File:", "Rot", " ", "(IA x)", ".pdf">>]

\* the entity of the first row has no statement yet
FirstEntity == [LoopEntity EXCEPT !.claims = <<>>]

LoopCheckpoints == {1, 2, 3}

InitLoop ==
    /\ m = IdleFrame
    /\ fn = IdleFn
    /\ hist = NoHist
    /\ es = IdleEs
    /\ srv = [claims |-> <<>>, labels |-> NoLabels, nextId |-> 1, faults |-> MaxFaults,
              variety |-> "sample"]
    /\ \E every \in LoopCheckpoints :
          mn = [IdleMn EXCEPT !.pc = "row", !.idx = 1, !.csrf = 1,
                              !.fresh = 1, !.fresh_by = "login",
                              !.df = [k \in 1..MaxRows |-> LoopRow],
                              !.wiki = [k \in 1..MaxRows |->
                                          IF k = 1 THEN FirstEntity ELSE LoopEntity],
                              !.checkpoint_every = every]

SpecLoop == InitLoop /\ [][NextMain]_vars

(***************************************************************************)
(* Properties of the caption step (under SpecMain)                         *)
(***************************************************************************)
\* the entity held a non-empty label in the language when the caption step
\* of the row began
HadLabel(t, lang) == t.labels0 # <<>> /\ t.labels0[lang] # <<>> /\ Strip(t.labels0[lang]) # <<>>

\* C4 as claimed: for a language in which the entity has a non-empty label
\* when the caption step of a row begins, the row makes no set_label call
\* and no wbsetlabel POST, and when the step gets to that language its
\* caption status is "already-present".
C4_NoWriteOverExistingLabel ==
    \A k \in 1..Len(mn.rows) : \A lang \in {"en", "nl"} :
        HadLabel(mn.rows[k], lang)
        => (/\ \A n \in 1..Len(mn.rows[k].set_label) : mn.rows[k].set_label[n] # lang
            /\ mn.rows[k].posts[lang] = 0
            /\ (lang \in mn.rows[k].compared
                  => mn.df[k][IF lang = "en" THEN "CaptionENStatus" ELSE "CaptionNLStatus"]
                        = "already-present"))

BlankCandidate(t) == t.derived /\ \A n \in 1..Len(t.candidate) : t.candidate[n] = " "

RunEnded == mn.pc \in {"done", "exit"}

\* the write_back of line 2065 was called
FinalWriteBackCalled ==
    \/ mn.pc = "done"
    \/ mn.pc = "exit" /\ mn.exc = "SystemExit" /\ mn.idx > Len(mn.df)

\* C16 as claimed: every run that got past login ends with the write_back
\* after the last row, whatever failed in the rows (an API error, an HTTP or
\* network error of a read call, a title that does not resolve) and whatever
\* the checkpoint counter holds.
C16_RunEndsWithFinalWriteBack ==
    RunEnded /\ mn.exc # "SystemExit" => FinalWriteBackCalled

\* the statuses main writes for a failure
IsErrorStatus(x) ==
    x \in {"error: no MID in URL", "error: bad ResolverURL", "error:HTTP", "error:HTTPError",
           "error:RequestException", "error:ValueError", "error:RuntimeError",
           "error:RuntimeError:fetch_csrf"}

\* C17 as claimed: a failure in a row (no MID, a malformed ResolverURL, an
\* API error, an HTTP or network error of a read call, a title that does not
\* resolve) leaves an "error:..." status in that row and the loop goes on
\* to the next row; no such failure ends the run.
C17_RowFailureIsRecordedAndLoopGoesOn ==
    /\ mn.pc # "idle" /\ mn.pc # "done" /\ mn.exc # "SystemExit"
        => mn.pc \in {"row", "statement", "caption", "label"}
    /\ \A k \in 1..Len(mn.rows) :
        LET t == mn.rows[k]
            row == mn.df[k]
        IN /\ extract_mid(t.loaded.url) = NoVal => row.SDCStatus = "error: no MID in URL"
           /\ (extract_mid(t.loaded.url) # NoVal /\ ~StartsWithHttp(t.loaded.resolver))
                 => row.SDCStatus = "error: bad ResolverURL"
           /\ (t.read # NoVal /\ LabelReadRaises(t.read))
                 => IsErrorStatus(row.CaptionENStatus) /\ IsErrorStatus(row.CaptionNLStatus)

\* the rows finished since the last write_back in which a write succeeded
WroteSinceFlush == {k \in (mn.flushed_at + 1)..Len(mn.rows) : mn.rows[k].written > 0}

\* C18 as claimed: at every row boundary the rows with at least one
\* successful wiki write since the last write_back are fewer than
\* CHECKPOINT_EVERY_SUCCESS: each of them, a row that ended with an error
\* status included, has added exactly one to the checkpoint counter.
C18_WritesSinceFlushBelowThreshold ==
    mn.pc = "row"
    => (/\ Cardinality(WroteSinceFlush) < mn.checkpoint_every
        /\ mn.success_since_flush = Cardinality(WroteSinceFlush))

\* a mutating call of main is about to issue its first request
CallStarts ==
    \/ mn.pc = "label" /\ m.pc = "loop" /\ m.attempt = 0
    \/ mn.pc = "statement" /\ es.pc = "idle" /\ es.done = <<>>

\* the token that call was given
StartToken == IF mn.pc = "label" THEN m.token ELSE es.csrf

\* C19 as claimed: once a label write has refreshed the CSRF token, every
\* later mutating call of the run (the nl label of the row, the statements
\* and labels of later rows) starts with the refreshed token.
C19_LabelRefreshReachesLaterCalls ==
    CallStarts /\ mn.fresh_by = "label" => StartToken = mn.fresh

\* the row as the sheet held it when it was loaded
LoadedRow(k) ==
    IF k <= Len(mn.rows) THEN mn.rows[k].loaded
    ELSE IF k = mn.idx /\ mn.cur.loaded # <<>> THEN mn.cur.loaded
    ELSE mn.df[k]

LoadedEmpty(k) ==
    /\ LoadedRow(k).SDCStatus = "" /\ LoadedRow(k).CaptionENStatus = ""
    /\ LoadedRow(k).CaptionNLStatus = ""

StatusCols == {"SDCStatus", "CaptionENStatus", "CaptionNLStatus"}

\* a processed row whose status columns were empty at load holds the
\* statuses of the module docstring
StatusesOfDocstring ==
    \A k \in 1..Len(mn.rows) :
        LoadedEmpty(k)
        => (/\ \/ mn.df[k].SDCStatus \in {"created", "updated", "already-present"}
               \/ IsErrorStatus(mn.df[k].SDCStatus)
            /\ \A c \in {"CaptionENStatus", "CaptionNLStatus"} :
                  \/ mn.df[k][c] \in {"created", "already-present", "skipped-empty-candidate"}
                  \/ IsErrorStatus(mn.df[k][c]))

\* a status of such a row, once it is not empty, keeps its value
StatusKeepsItsValue ==
    \A k \in 1..Len(mn.df) : \A c \in StatusCols :
        (LoadedEmpty(k) /\ mn.df[k][c] # "") => mn.df'[k][c] = mn.df[k][c]

\* C22: after main has processed a row whose status columns were empty at
\* load, SDCStatus is created, updated, already-present or an "error:..."
\* string, each caption status is created, already-present,
\* skipped-empty-candidate or an "error:..." string, none of the three is
\* empty, and none is assigned a second time: once set it is never changed.
C22_StatusesSetOnce == [](StatusesOfDocstring) /\ [][StatusKeepsItsValue]_vars

\* the en label of a row was created and the nl label failed: the except
\* clause ran with one caption status set and the other empty
C22_Witness ==
    /\ Len(mn.rows) = 1 /\ LoadedEmpty(1)
    /\ mn.df[1].SDCStatus = "created" /\ mn.df[1].CaptionENStatus = "created"
    /\ mn.df[1].CaptionNLStatus = "error:RuntimeError"

\* line 1933: extract_mid finds a MID in the URL cell of the row
HasMid(row) == extract_mid(row.url) # NoVal

\* C23: for a row with a valid MID the caption step runs whether the
\* statement step succeeded, was refused for a missing or invalid
\* ResolverURL, or raised; between the two steps only SDCStatus has been
\* set, the caption columns being as they were loaded.
C23_CaptionStepRunsAfterAnyStatementOutcome ==
    /\ \A k \in 1..Len(mn.rows) : HasMid(mn.rows[k].loaded) => mn.rows[k].labels0 # <<>>
    /\ mn.pc = "caption"
         => (/\ mn.df[mn.idx].SDCStatus # ""
             /\ mn.df[mn.idx].CaptionENStatus = mn.cur.loaded.CaptionENStatus
             /\ mn.df[mn.idx].CaptionNLStatus = mn.cur.loaded.CaptionNLStatus
             /\ mn.df[mn.idx].CaptionCandidate = mn.cur.loaded.CaptionCandidate)

\* a row whose ResolverURL was refused has had its en label written
C23_Witness ==
    /\ Len(mn.rows) = 1 /\ HasMid(mn.rows[1].loaded) /\ LoadedEmpty(1)
    /\ mn.df[1].SDCStatus = "error: bad ResolverURL"
    /\ mn.df[1].CaptionENStatus = "created" /\ mn.rows[1].posts["en"] = 1

(***************************************************************************)
(* Properties of the row loop (under SpecLoop)                             *)
(***************************************************************************)
\* the row made a change: its statement was created or updated, or one of
\* its labels was created
Changed(k) ==
    \/ mn.df[k].SDCStatus \in {"created", "updated"}
    \/ mn.df[k].CaptionENStatus = "created"
    \/ mn.df[k].CaptionNLStatus = "created"

\* C15: in a run with checkpoint threshold T whose rows so far each made a
\* change and which no fatal error has ended, after k rows write_back has
\* run k div T times in the loop, the last time right after row T * (k div T),
\* the counter holds k mod T (0 right after a write_back), and the end of
\* the run adds exactly one write_back; every write_back is given the whole
\* DataFrame.  For T = 3 and 7 rows that is 2 + 1 = 3 calls.
C15_CheckpointEveryT ==
    LET k == Len(mn.rows)
        T == mn.checkpoint_every
    IN (mn.pc \in {"row", "done"} /\ \A j \in 1..k : Changed(j))
       => (/\ mn.flushed_at = T * (k \div T)
           /\ mn.success_since_flush = k % T
           /\ mn.write_backs = (k \div T) + (IF mn.pc = "done" THEN 1 ELSE 0)
           /\ mn.write_backs > 0 => mn.flushed_rows = Len(mn.df)
           /\ mn.pc = "done" => k = Len(mn.df))

\* a run of at least 7 changing rows with threshold 3 has ended after two
\* write_backs in the loop and one after it
C15_Witness ==
    /\ mn.pc = "done" /\ mn.checkpoint_every = 3 /\ Len(mn.rows) \in {7, 8}
    /\ \A j \in 1..Len(mn.rows) : Changed(j)
    /\ mn.flushed_at = 6 /\ mn.write_backs = 3 /\ mn.success_since_flush > 0

\* every write of the call began with the token the write before it
\* returned, and only the last write may have raised
Chained(c) ==
    /\ c.chained
    /\ \A k \in 1..(Len(c.writes) - 1) : c.writes[k].ok

\* C20: in a call of ensure_statement every write starts with the token
\* the write before it returned (the first with the token of the call);
\* the call returns the token its last write returned, or the token it was
\* given when it wrote nothing; and the next mutating call of main, in the
\* same or a later row, starts with the token the call returned.
C20_StatementTokenIsThreaded ==
    /\ \A n \in 1..Len(es.done) :
          LET c == es.done[n]
          IN /\ Chained(c)
             /\ c.status \in {"created", "updated", "already-present"}
                  => c.csrf_out = (IF c.writes = <<>> THEN c.csrf_in ELSE c.last)
    /\ (mn.pc = "statement" /\ es.pc = "returned") => es.csrf = es.done[1].csrf_out
    /\ (CallStarts /\ mn.fresh_by = "statement") => StartToken = mn.fresh

\* the statement of the first row was created with a token refreshed at the
\* URL qualifier, and the call of ensure_statement of the second row is
\* about to start with that token
C20_Witness ==
    /\ mn.idx = 2 /\ mn.pc = "statement" /\ es.pc = "idle" /\ es.done = <<>>
    /\ mn.df[1].SDCStatus = "created" /\ mn.rows[1].written = 4
    /\ mn.fresh_by = "statement" /\ mn.fresh = 2 /\ es.csrf = 2

(***************************************************************************)
(* derive_caption_from_live_title on its own: one call with a title put    *)
(* together from a prefix, a name, an (IA ...) parenthetical and an        *)
(* extension, or with a value that is no str                               *)
(***************************************************************************)
ExampleTitle ==
    <<"File:", "Rotterdamsche", " ", "courant", " ", "21-11-1840", " ",
      "(IA KBDDD02 000201168 mpeg21)", ".pdf">>

ExampleCaption == <<"Rotterdamsche", " ", "courant", " ", "21-11-1840">>

\* names as the title holds them, each with the caption it stands for
TitleNames ==
    {<<<<"a">>, <<"a">>>>,
     <<<<"a", "_", "_", "b">>, <<"a", " ", "b">>>>,
     <<<<" ", "a", " ", " ", "(b)", " ">>, <<"a", " ", "(b)">>>>,
     <<<<"a", ".pdf", "_", "b">>, <<"a", ".pdf", " ", "b">>>>,
     <<<<>>, <<>>>>}

TitlePrefixes == {<<>>} \cup {<<x>> : x \in FilePrefixes}

TitleTrails == {<<>>, <<" ", "(IA x)">>, <<"(ia x)", " ">>, <<"_", "(IA x)", "_">>}

TitleExtensions == {<<>>, <<".pdf">>, <<".TIFF">>, <<".djvu">>}

\* the titles with the caption the docstring promises for each
DeriveCases ==
    {[arg |-> PyStr(pad \o pre \o name[1] \o trail \o ext \o pad), caption |-> name[2]] :
        pad \in {<<>>, <<" ">>}, pre \in TitlePrefixes, name \in TitleNames,
        trail \in TitleTrails, ext \in TitleExtensions}
    \cup {[arg |-> PyStr(ExampleTitle), caption |-> ExampleCaption],
          [arg |-> PyStr(<<"a", ".txt">>), caption |-> <<"a", ".txt">>],
          [arg |-> PyStr(<<"a", ".pdf", ".jpg">>), caption |-> <<"a", ".pdf">>],
          [arg |-> PyStr(<<" ", " ">>), caption |-> <<>>],
          [arg |-> PyStr(<<>>), caption |-> <<>>],
          [arg |-> PyNone, caption |-> <<>>],
          [arg |-> PyNaN, caption |-> <<>>]}

InitDerive ==
    /\ m = IdleFrame
    /\ hist = NoHist
    /\ srv = [claims |-> <<>>, labels |-> NoLabels, nextId |-> 1, faults |-> 0,
              variety |-> "sample"]
    /\ es = IdleEs
    /\ mn = IdleMn
    /\ \E c \in DeriveCases :
          fn = [pc |-> "call", arg |-> c.arg, expected |-> c.caption, result |-> <<>>]

\* lines 593-613: the call; none of its statements can raise, so the except
\* clause of line 608 is never entered
DeriveCaption ==
    /\ fn.pc = "call"
    /\ fn' = [fn EXCEPT !.pc = "returned", !.result = derive_caption_from_live_title(fn.arg)]
    /\ UNCHANGED <<m, hist, srv, es, mn>>

NextDerive == DeriveCaption

SpecDerive == InitDerive /\ [][NextDerive]_vars

\* C25: derive_caption_from_live_title removes a leading File: prefix in any
\* case, turns underscores into spaces, removes one known extension at the
\* very end and then a trailing (IA ...) parenthetical, and collapses runs
\* of whitespace; the title of the docstring yields "Rotterdamsche courant
\* 21-11-1840"; a value that is no str, or a blank one, yields ""; the call
\* always returns.
C25_DerivedCaption ==
    /\ fn.pc \in {"call", "returned"}
    /\ fn.pc = "returned" =>
          /\ fn.result = fn.expected
          /\ (fn.arg.type # "str" \/ Strip(fn.arg.str) = <<>>) => fn.result = <<>>
          /\ fn.arg = PyStr(ExampleTitle) => fn.result = ExampleCaption

C25_Witness ==
    /\ fn.pc = "returned" /\ fn.arg = PyStr(ExampleTitle) /\ fn.result = ExampleCaption

(***************************************************************************)
(* mw_request on its own: one call, with what it logs when the request     *)
(* fails                                                                   *)
(***************************************************************************)
MaxKeys == 2

PyDict(items) == [type |-> "dict", items |-> items]

\* str(k).lower() over the keys below
KeyLower(k) ==
    CASE k = "TOKEN" -> "token"
      [] k = "Authorization" -> "authorization"
      [] k = "LgPassword" -> "lgpassword"
      [] OTHER -> k

REDACT ==
    {"token", "csrftoken", "logintoken", "lgtoken", "lgpassword", "password", "assertuser",
     "Authorization"}

_redact_CaseSensitive(d) ==
    IF d.type # "dict" THEN d
    ELSE PyDict([k \in DOMAIN d.items |->
                    IF k \in REDACT THEN "<redacted>" ELSE d.items[k]])

\* lines 688-698
_redact(d) ==
    IF d.type # "dict" THEN d
    ELSE PyDict([k \in DOMAIN d.items |->
                    IF KeyLower(k) \in {KeyLower(x) : x \in REDACT}
                    THEN "<redacted>" ELSE d.items[k]])

\* (method or "").upper()
MethodUpper(method) == IF method = "post" THEN "POST" ELSE method

ParamKeys ==
    {"token", "TOKEN", "csrftoken", "logintoken", "lgpassword", "password", "assertuser",
     "Authorization", "authorization", "action", "tokens"}

DataKeys == {"lgtoken", "LgPassword"}

ParamValues == {"s1", "s2"}

Dicts(keys, n) ==
    UNION {[dom -> ParamValues] : dom \in {x \in SUBSET keys : Cardinality(x) <= n}}

\* what the request comes back with: JSON, a body that is no JSON, a
\* timeout, a status that raise_for_status turns into HTTPError, any other
\* requests.RequestException
RequestOutcomes == {"json", "nonjson", "timeout", "http_error", "request_error"}

InitRequest ==
    /\ m = IdleFrame
    /\ hist = NoHist
    /\ srv = [claims |-> <<>>, labels |-> NoLabels, nextId |-> 1, faults |-> 0,
              variety |-> "sample"]
    /\ es = IdleEs
    /\ mn = IdleMn
    /\ \E method \in {"GET", "post", "PUT"}, params \in Dicts(ParamKeys, MaxKeys),
          data \in {PyNone} \cup {PyDict(d) : d \in Dicts(DataKeys, MaxKeys)} :
          fn = [pc |-> "call", method |-> method, params |-> PyDict(params), data |-> data,
                log |-> <<>>, exc |-> NoVal]

\* lines 700-746
MwRequest ==
    /\ fn.pc = "call"
    /\ UNCHANGED <<m, hist, srv, es, mn>>
    /\ IF MethodUpper(fn.method) \notin {"GET", "POST"}
       THEN fn' = [fn EXCEPT !.pc = "raised", !.exc = "ValueError"]
       ELSE \E outcome \in RequestOutcomes :
              LET context == [params |-> _redact(fn.params), data |-> _redact(fn.data)]
              IN IF outcome = "json"
                 THEN fn' = [fn EXCEPT !.pc = "returned"]
                 ELSE fn' = [fn EXCEPT
                                !.pc = "raised",
                                !.log = Append(@, context),
                                !.exc = CASE outcome = "nonjson" -> "ValueError"
                                          [] outcome = "timeout" -> "Timeout"
                                          [] outcome = "http_error" -> "HTTPError"
                                          [] OTHER -> "RequestException"]

NextRequest == MwRequest

SpecRequest == InitRequest /\ [][NextRequest]_vars

\* the key is one of the names the log must not show, in any case
SensitiveKey(k) ==
    KeyLower(k) \in {"token", "csrftoken", "logintoken", "lgtoken", "lgpassword", "password",
                     "assertuser", "authorization"}

\* the logged value is the value given, with every sensitive entry masked
Masked(logged, given) ==
    IF given.type # "dict" THEN logged = given
    ELSE /\ logged.type = "dict"
         /\ DOMAIN logged.items = DOMAIN given.items
         /\ \A k \in DOMAIN given.items :
               logged.items[k] = IF SensitiveKey(k) THEN "<redacted>" ELSE given.items[k]

\* C24: whenever mw_request logs a failed request, every entry of params
\* and data under a sensitive key (any case) is logged as "<redacted>" and
\* every other entry as given, so requests that differ only in the
\* sensitive values log the same params and data.
C24_SecretsRedactedInLog ==
    /\ fn.pc = "raised" /\ fn.exc # "ValueError" => Len(fn.log) = 1
    /\ \A n \in 1..Len(fn.log) :
          /\ Masked(fn.log[n].params, fn.params)
          /\ Masked(fn.log[n].data, fn.data)
          /\ \A k \in DOMAIN fn.params.items, v \in ParamValues :
                SensitiveKey(k) =>
                    _redact(PyDict([fn.params.items EXCEPT ![k] = v])) = fn.log[n].params

C24_Witness ==
    /\ fn.pc = "raised" /\ fn.exc = "RequestException" /\ Len(fn.log) = 1
    /\ DOMAIN fn.params.items = {"TOKEN", "action"}
    /\ fn.log[1].params.items["TOKEN"] = "<redacted>"
    /\ fn.log[1].params.items["action"] = fn.params.items["action"]
    /\ fn.data.type = "dict" /\ "LgPassword" \in DOMAIN fn.data.items
    /\ fn.log[1].data.items["LgPassword"] = "<redacted>"

(***************************************************************************)
(* main from the login on: mw_login_and_tokens, then the row loop on a     *)
(* sheet of one row                                                        *)
(***************************************************************************)
\* what mw_request comes back with for a token query: an exception, or a
\* JSON dict whose token is missing, empty or present
LoginTokenAnswers ==
    {[kind |-> "raise", token |-> NoVal], [kind |-> "json", token |-> NoVal],
     [kind |-> "json", token |-> ""], [kind |-> "json", token |-> "lt"]}

\* csrf tokens are numbered as in the frames above; 0 is a missing or empty one
CsrfTokenAnswers ==
    {[kind |-> "raise", token |-> 0], [kind |-> "json", token |-> 0],
     [kind |-> "json", token |-> 1]}

\* for action=login: an exception, or a JSON dict with login.result, or one
\* without a login object
LoginAnswers ==
    {[kind |-> "raise", result |-> NoVal], [kind |-> "json", result |-> NoVal],
     [kind |-> "json", result |-> "Failed"], [kind |-> "json", result |-> "NeedToken"],
     [kind |-> "json", result |-> "Success"]}

LoginRaised(sent) == [exc |-> "SystemExit", csrf |-> 0, requests |-> sent]

mw_login_and_tokens_AnyResult(username, password, tok, login, tok2) ==
    LET r1 == <<[req |-> "logintoken", got |-> tok]>>
        r2 == Append(r1, [req |-> "login", lgtoken |-> tok.token, got |-> login])
        r3 == Append(r2, [req |-> "csrftoken", got |-> tok2])
    IN IF username = <<>> \/ password = <<>> THEN LoginRaised(<<>>)
       ELSE IF tok.kind = "raise" THEN LoginRaised(r1)
       ELSE IF tok.token \in {NoVal, ""} THEN LoginRaised(r1)
       ELSE IF login.kind = "raise" THEN LoginRaised(r2)
       ELSE IF tok2.kind = "raise" THEN LoginRaised(r3)
       ELSE IF tok2.token = 0 THEN LoginRaised(r3)
       ELSE [exc |-> NoVal, csrf |-> tok2.token, requests |-> r3]

\* lines 775-832: the requests sent, in order, with what each came back
\* with, and the CSRF token returned or the exception raised
mw_login_and_tokens(username, password, tok, login, tok2) ==
    LET r1 == <<[req |-> "logintoken", got |-> tok]>>
        r2 == Append(r1, [req |-> "login", lgtoken |-> tok.token, got |-> login])
        r3 == Append(r2, [req |-> "csrftoken", got |-> tok2])
    IN IF username = <<>> \/ password = <<>> THEN LoginRaised(<<>>)
       ELSE IF tok.kind = "raise" THEN LoginRaised(r1)
       ELSE IF tok.token \in {NoVal, ""} THEN LoginRaised(r1)
       ELSE IF login.kind = "raise" THEN LoginRaised(r2)
       ELSE IF login.result # "Success" THEN LoginRaised(r2)
       ELSE IF tok2.kind = "raise" THEN LoginRaised(r3)
       ELSE IF tok2.token = 0 THEN LoginRaised(r3)
       ELSE [exc |-> NoVal, csrf |-> tok2.token, requests |-> r3]

\* lines 170-171: the credentials of the environment, stripped
Credentials == {<<>>, <<"u">>}

InitLogin ==
    /\ m = IdleFrame
    /\ hist = NoHist
    /\ es = IdleEs
    /\ srv = [claims |-> <<>>, labels |-> NoLabels, nextId |-> 1, faults |-> MaxFaults,
              variety |-> "sample"]
    /\ mn = [IdleMn EXCEPT !.pc = "login", !.df = <<LoopRow>>, !.checkpoint_every = 1]
    /\ \E u \in Credentials, p \in Credentials :
          fn = [pc |-> "call", USERNAME |-> u, PASSWORD |-> p, exc |-> NoVal, csrf |-> 0,
                requests |-> <<>>]

\* line 1915: session, csrf = mw_login_and_tokens(); SystemExit ends the run
Login ==
    /\ mn.pc = "login"
    /\ UNCHANGED <<m, hist, srv, es>>
    /\ \E tok \in LoginTokenAnswers, login \in LoginAnswers, tok2 \in CsrfTokenAnswers :
          LET r == mw_login_and_tokens(fn.USERNAME, fn.PASSWORD, tok, login, tok2)
          IN /\ fn' = [fn EXCEPT !.pc = IF r.exc = NoVal THEN "returned" ELSE "raised",
                                 !.exc = r.exc, !.csrf = r.csrf, !.requests = r.requests]
             /\ IF r.exc = NoVal
                THEN mn' = [mn EXCEPT !.pc = "row", !.idx = 1, !.csrf = r.csrf,
                                      !.fresh = r.csrf, !.fresh_by = "login"]
                ELSE mn' = [mn EXCEPT !.pc = "exit", !.exc = r.exc]

NextLogin ==
    \/ Login
    \/ RowBegin
    \/ StatementDone
    \/ CaptionStep
    \/ LabelDone
    \/ Finalize
    \/ EnsureStatement
    \/ EnsureStatementResume
    \/ PostRetryableStatus
    \/ PostHttpError
    \/ PostTransportError
    \/ PostNotJson
    \/ PostApiError
    \/ PostSuccess

SpecLogin == InitLogin /\ [][NextLogin]_vars

\* main has begun on the rows: a row is under way or finished, or a read or
\* write of the statement or caption step has been made
RowWorkBegun ==
    \/ mn.idx >= 1 \/ mn.rows # <<>> \/ mn.cur # NoRow
    \/ es # IdleEs \/ m # IdleFrame \/ hist # NoHist

\* the three requests of the login, in order, each with a good answer
LoggedIn ==
    /\ Len(fn.requests) = 3
    /\ fn.requests[1].req = "logintoken" /\ fn.requests[1].got.kind = "json"
    /\ fn.requests[1].got.token \notin {NoVal, ""}
    /\ fn.requests[2].req = "login" /\ fn.requests[2].got.kind = "json"
    /\ fn.requests[2].got.result = "Success"
    /\ fn.requests[3].req = "csrftoken" /\ fn.requests[3].got.kind = "json"
    /\ fn.requests[3].got.token # 0

\* C21: main issues no read or write for any row unless
\* mw_login_and_tokens has obtained a non-empty login token, then received
\* login result "Success", then obtained a non-empty CSRF token; missing
\* credentials or a failure of any of these steps ends the run with
\* SystemExit before the first row is processed.
C21_NoRowWorkBeforeLogin ==
    /\ RowWorkBegun => (LoggedIn /\ fn.pc = "returned" /\ fn.csrf # 0)
    /\ (fn.pc # "call" /\ ~LoggedIn)
         => (/\ fn.pc = "raised" /\ fn.exc = "SystemExit"
             /\ mn.pc = "exit" /\ mn.exc = "SystemExit" /\ ~RowWorkBegun)
    /\ (fn.pc # "call" /\ (fn.USERNAME = <<>> \/ fn.PASSWORD = <<>>))
         => (fn.requests = <<>> /\ fn.exc = "SystemExit")

\* a row has been written to after a good login
C21_Witness ==
    /\ LoggedIn /\ Len(mn.rows) = 1 /\ mn.rows[1].written > 0

\* the login was refused and the run ended before the first row
C21_WitnessRefused ==
    /\ fn.pc = "raised" /\ Len(fn.requests) = 2 /\ fn.requests[2].got.result = "Failed"
    /\ mn.pc = "exit"

(***************************************************************************)
(* WriteSDoCfromExcel.process_rows with the property map of CONFIG (one    *)
(* property): one action per row of the sheet.  The rows name the file by  *)
(* its M-id, or have neither M-id nor file name.                           *)
(***************************************************************************)
MaxSheet == 2

\* valid_or_error: MID_RE ^M\d+$, QID_RE ^Q\d+$ (the property is P180)
valid_or_error(mid, qid) ==
    IF mid # "M1" THEN "Invalid CommonsMid"
    ELSE IF qid \notin {"Q1", "Q2"} THEN "Invalid QID"
    ELSE NoVal

SheetRows == [mid : {"M1", ""}, qid : {"Q1", "Q2", "x", ""}]

\* cfg.dry_run and cfg.max_edits (-1 stands for None)
Configs == {[dry_run |-> FALSE, max_edits |-> -1], [dry_run |-> FALSE, max_edits |-> 1],
            [dry_run |-> TRUE, max_edits |-> -1]}

\* what the calls of one row can come back with.  fetch: the read of the
\* statements succeeds or raises.  add: wbcreateclaim added the claim; the
\* response is HTTP 200 with an error object and nothing was added; the
\* CSRF token came back empty; the POST raised
FetchOutcomes_PR == {"ok", "raise"}

AddOutcomes == {"added", "api_error", "no_token", "http_error"}

InitProcessRows ==
    /\ m = IdleFrame
    /\ hist = NoHist
    /\ srv = [claims |-> <<>>, labels |-> NoLabels, nextId |-> 1, faults |-> 0,
              variety |-> "sample"]
    /\ es = IdleEs
    /\ mn = IdleMn
    /\ \E df \in [1..MaxSheet -> SheetRows], cfg \in Configs, held \in {{}, {"Q1"}} :
          fn = [pc |-> "rows", idx |-> 1, df |-> df, cfg |-> cfg, statements |-> held,
                faults |-> MaxFaults, added |-> 0, skipped_dupe |-> 0, skipped_invalid |-> 0,
                errors |-> 0, edit_count |-> 0, log |-> <<>>]

\* writer.writerow: the action column, with the row, what the wiki answered
\* and whether it added the claim
LogRow(f, action, outcome, applied) ==
    [f EXCEPT !.log = Append(@, [row |-> f.idx, action |-> action, outcome |-> outcome,
                                 applied |-> applied])]

\* lines 582-584: the check after the inner loop, then the next row
AfterRow(f) ==
    IF f.cfg.max_edits # -1 /\ f.edit_count >= f.cfg.max_edits
    THEN [f EXCEPT !.pc = "done"]
    ELSE [f EXCEPT !.idx = @ + 1]

\* lines 564-577: the except clause
RowError(f, outcome) ==
    LogRow([f EXCEPT !.errors = @ + 1, !.faults = @ - 1], "ERROR", outcome, FALSE)

\* lines 530-555: after add_claim has returned its response
RowAdded(f, qid, outcome) ==
    LogRow([f EXCEPT !.added = @ + 1, !.edit_count = @ + 1,
                     !.statements = IF outcome = "added" THEN @ \cup {qid} ELSE @,
                     !.faults = IF outcome = "added" THEN @ ELSE @ - 1],
           "ADDED", outcome, outcome = "added")

\* lines 443-584: one pass of the loop over the rows
ProcessRow ==
    /\ fn.pc = "rows"
    /\ fn.idx <= Len(fn.df)
    /\ UNCHANGED <<m, hist, srv, es, mn>>
    /\ LET row == fn.df[fn.idx]
           err == valid_or_error(row.mid, row.qid)
       IN IF row.qid = "" THEN fn' = AfterRow(fn)
          ELSE IF err # NoVal
          THEN fn' = AfterRow(LogRow([fn EXCEPT !.skipped_invalid = @ + 1],
                                     "SKIPPED_INVALID", "none", FALSE))
          ELSE \E fetch \in FetchOutcomes_PR, add \in AddOutcomes :
                 /\ (fetch = "raise" \/ add # "added") => fn.faults > 0
                 /\ IF fetch = "raise" THEN fn' = AfterRow(RowError(fn, "raise"))
                    ELSE IF row.qid \in fn.statements
                    THEN fn' = AfterRow(LogRow([fn EXCEPT !.skipped_dupe = @ + 1],
                                               "SKIPPED_DUPLICATE", "none", FALSE))
                    ELSE IF fn.cfg.dry_run
                    THEN fn' = AfterRow(LogRow([fn EXCEPT !.added = @ + 1],
                                               "WOULD_ADD", "none", FALSE))
                    ELSE IF fn.cfg.max_edits # -1 /\ fn.edit_count >= fn.cfg.max_edits
                    THEN fn' = AfterRow(fn)
                    ELSE IF add \in {"no_token", "http_error"}
                    THEN fn' = AfterRow(RowError(fn, add))
                    ELSE fn' = AfterRow(RowAdded(fn, row.qid, add))

\* lines 586-595: the loop has run out of rows
RowsDone ==
    /\ fn.pc = "rows"
    /\ fn.idx > Len(fn.df)
    /\ fn' = [fn EXCEPT !.pc = "done"]
    /\ UNCHANGED <<m, hist, srv, es, mn>>

NextProcessRows == ProcessRow \/ RowsDone

SpecProcessRows == InitProcessRows /\ [][NextProcessRows]_vars

LogRowsWhere(P(_)) == Cardinality({n \in 1..Len(fn.log) : P(fn.log[n])})

IsApplied(entry) == entry.applied

\* C26: an ADDED log line and the increment of the added and edit counters
\* happen only when wbcreateclaim actually added the claim; a wbcreateclaim
\* response that carries an API error is logged as ERROR and is not counted
\* as an edit.
C26_AddedOnlyWhenClaimAdded ==
    /\ \A n \in 1..Len(fn.log) :
          /\ fn.log[n].action = "ADDED" => fn.log[n].applied
          /\ fn.log[n].outcome = "api_error" => fn.log[n].action = "ERROR"
    /\ fn.edit_count = LogRowsWhere(IsApplied)
    /\ ~fn.cfg.dry_run => fn.added = LogRowsWhere(IsApplied)

(***************************************************************************)
(* extract-delpher-urls-from-wikitext: main, one action per batch          *)
(***************************************************************************)
MaxTitles == 3

Url(scheme, host, path, fragment) ==
    [scheme |-> scheme, host |-> host, path |-> path, fragment |-> fragment]

\* (p.hostname or "").lower()
HostLower(host) == IF host = "Resolver.KB.nl" THEN "resolver.kb.nl" ELSE host

is_kb_resolver(url) ==
    /\ url.scheme \in {"http", "https"}
    /\ HostLower(url.host) = "resolver.kb.nl"

\* force https, drop the fragment, an empty path becomes "/"
normalize_to_https(url) ==
    [url EXCEPT !.scheme = "https", !.fragment = "",
                !.path = IF url.path = "" THEN "/" ELSE url.path]

\* EXCLUDE_SUFFIX_RE = mpeg21\)\.pdf$ , re.IGNORECASE, on the ending of a title
EXCLUDE_SUFFIX_RE(title) == title.ending \in {"mpeg21).pdf", "MPEG21).PDF"}

\* the files of the category: title k ends in one of three endings
TitleEndings == <<"mpeg21).pdf", ".jpg", "MPEG21).PDF">>

AllFiles == [k \in 1..MaxTitles |-> [name |-> k, ending |-> TitleEndings[(k % 3) + 1]]]

\* what get_extlinks_for_title comes back with: HTTPError, another
\* exception, or the external links of the page
ExtlinkLists ==
    {<<>>,
     <<Url("https", "example.org", "/x", ""), Url("ftp", "resolver.kb.nl", "/a", "")>>,
     <<Url("http", "resolver.kb.nl", "/a", "f"), Url("https", "resolver.kb.nl", "/a", "")>>,
     <<Url("https", "resolver.kb.nl", "", ""), Url("http", "Resolver.KB.nl", "/b", "")>>}

ExtlinkAnswers ==
    {[kind |-> "http_error", links |-> <<>>], [kind |-> "error", links |-> <<>>]}
    \cup {[kind |-> "links", links |-> l] : l \in ExtlinkLists}

RECURSIVE SeqOf(_)
SeqOf(set) == IF set = {} THEN <<>>
              ELSE LET x == CHOOSE y \in set : TRUE IN <<x>> \o SeqOf(set \ {x})

\* the rows one title adds to the three lists of its batch
TitleRows(main, skip, none) == [main |-> main, skip |-> skip, none |-> none]

kb_links(extlinks) ==
    {normalize_to_https(extlinks[k]) : k \in {j \in 1..Len(extlinks) : is_kb_resolver(extlinks[j])}}

ProcessTitle_NoContinue(title, exclude, ans) ==
    LET links == kb_links(ans.links)
        skipped == \/ exclude /\ EXCLUDE_SUFFIX_RE(title)
                   \/ ans.kind \in {"http_error", "error"}
    IN IF links # {}
       THEN TitleRows(SeqOf({<<title, u>> : u \in links}), IF skipped THEN <<title>> ELSE <<>>,
                      <<>>)
       ELSE TitleRows(<<>>, IF skipped THEN <<title>> ELSE <<>>, <<title>>)

\* lines 297-327: the body of the loop over the titles of a batch
ProcessTitle(title, exclude, ans) ==
    IF exclude /\ EXCLUDE_SUFFIX_RE(title) THEN TitleRows(<<>>, <<title>>, <<>>)
    ELSE IF ans.kind \in {"http_error", "error"} THEN TitleRows(<<>>, <<title>>, <<>>)
    ELSE LET links == kb_links(ans.links)
         IN IF links # {}
            THEN TitleRows(SeqOf({<<title, u>> : u \in links}), <<>>, <<>>)
            ELSE TitleRows(<<>>, <<>>, <<title>>)

RECURSIVE Concat(_, _)
Concat(rows, field) ==
    IF rows = <<>> THEN <<>> ELSE Head(rows)[field] \o Concat(Tail(rows), field)

\* all_files[slice(START_INDEX, END_INDEX)]; END_INDEX -1 stands for None
Sliced(all_files, start, end) ==
    SubSeq(all_files, start + 1, IF end = -1 THEN Len(all_files) ELSE end)

\* chunked(seq, size): the batch that begins after `done` titles
Chunk(seq, done, size) ==
    SubSeq(seq, done + 1, IF done + size > Len(seq) THEN Len(seq) ELSE done + size)

InitExtract ==
    /\ m = IdleFrame
    /\ hist = NoHist
    /\ srv = [claims |-> <<>>, labels |-> NoLabels, nextId |-> 1, faults |-> 0,
              variety |-> "sample"]
    /\ es = IdleEs
    /\ mn = IdleMn
    /\ \E start \in {0, 1}, end \in {-1, 2}, size \in {1, 2}, exclude \in BOOLEAN :
          fn = [pc |-> "batches", sliced |-> Sliced(AllFiles, start, end),
                BATCH_SIZE |-> size, EXCLUDE_MPEG21_PDF |-> exclude,
                processed_files |-> 0, f_main |-> <<>>, f_skip |-> <<>>, f_none |-> <<>>,
                total_rows_main |-> 0, total_titles_skipped |-> 0,
                total_titles_noresolver |-> 0, answers |-> <<>>]

\* lines 290-359: one batch
ProcessBatch ==
    /\ fn.pc = "batches"
    /\ fn.processed_files < Len(fn.sliced)
    /\ UNCHANGED <<m, hist, srv, es, mn>>
    /\ LET batch_files == Chunk(fn.sliced, fn.processed_files, fn.BATCH_SIZE)
       IN \E answers \in [1..Len(batch_files) -> ExtlinkAnswers] :
            LET rows == [k \in 1..Len(batch_files) |->
                            ProcessTitle(batch_files[k], fn.EXCLUDE_MPEG21_PDF, answers[k])]
                batch_rows_main == Concat(rows, "main")
                batch_titles_skipped == Concat(rows, "skip")
                batch_titles_noresolver == Concat(rows, "none")
            IN fn' = [fn EXCEPT
                        !.f_main = @ \o batch_rows_main,
                        !.f_skip = @ \o batch_titles_skipped,
                        !.f_none = @ \o batch_titles_noresolver,
                        !.processed_files = @ + Len(batch_files),
                        !.total_rows_main = @ + Len(batch_rows_main),
                        !.total_titles_skipped = @ + Len(batch_titles_skipped),
                        !.total_titles_noresolver = @ + Len(batch_titles_noresolver),
                        !.answers = @ \o answers]

\* lines 361-369: after the last batch
ExtractDone ==
    /\ fn.pc = "batches"
    /\ fn.processed_files >= Len(fn.sliced)
    /\ fn' = [fn EXCEPT !.pc = "done"]
    /\ UNCHANGED <<m, hist, srv, es, mn>>

NextExtract == ProcessBatch \/ ExtractDone

SpecExtract == InitExtract /\ [][NextExtract]_vars

\* the number of rows of a CSV that name the title (in their first column
\* for the main CSV)
MainRowsOf(title) == Cardinality({n \in 1..Len(fn.f_main) : fn.f_main[n][1] = title})

SkipRowsOf(title) == Cardinality({n \in 1..Len(fn.f_skip) : fn.f_skip[n] = title})

NoneRowsOf(title) == Cardinality({n \in 1..Len(fn.f_none) : fn.f_none[n] = title})

\* C27: every file title of the selected slice ends in exactly one of three
\* outcomes: one or more (file_name, kb_url) rows in the main CSV, or one
\* row in the no-resolver CSV, or one row in the non-processed CSV (skipped
\* by the mpeg21).pdf rule or failed with an error); the processed-file
\* count after the last batch equals the slice length.
C27_OneOutcomePerTitle ==
    /\ fn.processed_files <= Len(fn.sliced)
    /\ fn.pc = "done" => fn.processed_files = Len(fn.sliced)
    /\ \A k \in 1..Len(fn.sliced) :
          LET title == fn.sliced[k]
              main == MainRowsOf(title)
              skip == SkipRowsOf(title)
              none == NoneRowsOf(title)
          IN IF k > fn.processed_files THEN main = 0 /\ skip = 0 /\ none = 0
             ELSE /\ \/ main >= 1 /\ skip = 0 /\ none = 0
                     \/ main = 0 /\ skip = 0 /\ none = 1
                     \/ main = 0 /\ skip = 1 /\ none = 0
                  /\ skip = 1 <=>
                        ((fn.EXCLUDE_MPEG21_PDF
                             /\ title.ending \in {"mpeg21).pdf", "MPEG21).PDF"})
                         \/ fn.answers[k].kind \in {"http_error", "error"})
    /\ Len(fn.f_main) = fn.total_rows_main
    /\ \A n \in 1..Len(fn.f_main) : \E k \in 1..Len(fn.sliced) : fn.f_main[n][1] = fn.sliced[k]

\* a finished run over three titles, one in each CSV, the first with two
\* resolver links
C27_Witness ==
    /\ fn.pc = "done" /\ Len(fn.sliced) = 3 /\ fn.processed_files = 3
    /\ MainRowsOf(fn.sliced[1]) = 2
    /\ NoneRowsOf(fn.sliced[2]) = 1
    /\ SkipRowsOf(fn.sliced[3]) = 1

====
